---- MODULE Spec2Model ----
(***************************************************************************)
(* Model of the Tauri language server (lsp-server/src): the project index  *)
(* with its primary map, reverse file map, derived caches and position     *)
(* lookup; the processing of a file; the debounced re-index of did_change; *)
(* go-to-definition and the diagnostics of a file; the frontend parser and *)
(* the script blocks of a document; the symbol queries; the type map; the  *)
(* locks the calls of the index take; the scan of the workspace; the       *)
(* conversion of an LSP character offset into a byte index.                *)
(***************************************************************************)
EXTENDS FiniteSets, Integers, Sequences, TLC

VARIABLES
    map,                    \* ProjectIndex.map:      IndexKey -> Vec<LocationInfo>
    file_map,               \* ProjectIndex.file_map: PathBuf  -> Vec<IndexKey>
    parse_errors,           \* ProjectIndex.parse_errors: PathBuf -> String
    command_names_cache,    \* CacheManager.command_names: Option<Vec<(String, Option<LocationInfo>)>>
    event_names_cache,      \* CacheManager.event_names
    diagnostic_info_cache,  \* CacheManager.diagnostic_info: IndexKey -> DiagnosticInfo
    lens_data_cache,        \* CacheManager.lens_data: PathBuf -> Vec<(Range, String, Vec<LocationInfo>)>
    position_index_cache,   \* CacheManager.position_index: PathBuf -> Vec<(Range, IndexKey)>
    reference_limit,        \* ProjectIndex.reference_limit
    last,                   \* the call that ran last: its name, its arguments, the keys it purged
    threads,                \* the calls in flight on the concurrent index, one record per thread
    debounce_tasks,         \* Backend.debounce_tasks: PathBuf -> JoinHandle (the number of a task)
    tasks,                  \* the tasks did_change or the scan has spawned, in the order of their spawning
    handlers                \* the did_change notifications being handled, one record per handler

vars == <<map, file_map, parse_errors, command_names_cache, event_names_cache,
          diagnostic_info_cache, lens_data_cache, position_index_cache,
          reference_limit, last, threads, debounce_tasks, tasks, handlers>>

(* the state of the server around the index *)
server == <<debounce_tasks, tasks, handlers>>

----------------------------------------------------------------------------
(* Bounds of the model *)

MaxFindings == 2        \* findings per file
MaxLine == 2            \* lines 0..MaxLine in the position specification
MaxChar == 1            \* columns 0..MaxChar in the position specification

----------------------------------------------------------------------------
(* Option<T>: None is the empty sequence, Some(v) the one-element sequence *)

None == <<>>
Some(v) == <<v>>

(* DashMap / HashMap as a function whose domain is the set of present keys *)

EmptyMap == [x \in {} |-> <<>>]
MapInsert(m, k, v) == [x \in (DOMAIN m) \cup {k} |-> IF x = k THEN v ELSE m[x]]
MapRemove(m, k) == [x \in (DOMAIN m) \ {k} |-> m[x]]

(* the elements of a sequence that satisfy a test, in order *)
SeqRange(s) == {s[i] : i \in 1..Len(s)}

----------------------------------------------------------------------------
(* Data model *)

EntityType == {"Command", "Event", "Struct", "Enum", "Interface"}
Behavior == {"Definition", "Call", "Emit", "Listen"}

Pos(l, c) == [line |-> l, character |-> c]
Rng(s, e) == [start |-> s, end |-> e]

(* a finding without signature: parameters, return_type, fields and         *)
(* attributes are None                                                      *)
Finding(name, entity, behavior, range) ==
    [key |-> name, entity |-> entity, behavior |-> behavior, range |-> range,
     parameters |-> None, return_type |-> None, fields |-> None, attributes |-> None]

Parameter(name, type_name) == [name |-> name, type_name |-> type_name]

IndexKey(entity, name) == [entity |-> entity, name |-> name]

LocationInfo(path, range, behavior) ==
    [path |-> path, range |-> range, behavior |-> behavior,
     parameters |-> None, return_type |-> None, fields |-> None, attributes |-> None]

FileIndex(path, findings) == [path |-> path, findings |-> findings]

(* position order: line first, then character *)
PosLE(a, b) == a.line < b.line \/ (a.line = b.line /\ a.character <= b.character)
PosLT(a, b) == a.line < b.line \/ (a.line = b.line /\ a.character < b.character)

----------------------------------------------------------------------------
(* ProjectIndex::remove_file and ProjectIndex::add_file, one map operation  *)
(* at a time                                                                *)

(* a retain that keeps no location at all *)
RetainNothing(locs, path) == <<>>

(* a retain that purges nothing, so that add_file appends *)
RetainEverything(locs, path) == locs

(* a retain that lets the first location of the path through *)
RetainFirstOfPath(locs, path) ==
    LET first == {i \in 1..Len(locs) : locs[i].path = path /\ \A j \in 1..(i - 1) : locs[j].path # path}
    IN  [k \in 1..Cardinality({i \in 1..Len(locs) : locs[i].path # path \/ i \in first}) |->
            locs[CHOOSE i \in 1..Len(locs) :
                    /\ (locs[i].path # path \/ i \in first)
                    /\ Cardinality({j \in 1..i : locs[j].path # path \/ j \in first}) = k]]

(* locs.retain(|loc| loc.path != *path) *)
RetainOtherPaths(locs, path) == SelectSeq(locs, LAMBDA loc : loc.path # path)

(* self.map.entry(key).and_modify(|locs| locs.retain(..)) *)
RetainStep(m, key, path) ==
    IF key \in DOMAIN m THEN [m EXCEPT ![key] = RetainOtherPaths(m[key], path)] ELSE m

(* an emptiness test that never prunes *)
IsEmptyEntryNever(m, key) == FALSE

(* self.map.get(&key).is_some_and(|locs| locs.is_empty()) *)
IsEmptyEntry(m, key) == key \in DOMAIN m /\ m[key] = <<>>

(* self.map.remove(&key) *)
PruneStep(m, key) == MapRemove(m, key)

(* one iteration of the loop of remove_file *)
PurgeKey(m, key, path) ==
    LET m1 == RetainStep(m, key, path)
    IN  IF IsEmptyEntry(m1, key) THEN PruneStep(m1, key) ELSE m1

(* the loop of remove_file over the keys taken out of file_map; on a map    *)
(* without entries no iteration does anything                               *)
RECURSIVE PurgeKeys(_, _, _)
PurgeKeys(m, keys, path) ==
    IF keys = <<>> \/ DOMAIN m = {} THEN m
    ELSE PurgeKeys(PurgeKey(m, Head(keys), path), Tail(keys), path)

(* a key that forgets the kind of the finding *)
KeyOfFindingByName(f) == IndexKey("Command", f.key)

(* the key and the location add_file makes of one finding *)
KeyOfFinding(f) == IndexKey(f.entity, f.key)
InfoOfFinding(path, f) ==
    [path |-> path, range |-> f.range, behavior |-> f.behavior, parameters |-> f.parameters,
     return_type |-> f.return_type, fields |-> f.fields, attributes |-> f.attributes]

(* self.map.entry(key).or_default().push(info) *)
PushStep(m, key, info) ==
    MapInsert(m, key, (IF key \in DOMAIN m THEN m[key] ELSE <<>>) \o <<info>>)

(* the loop of add_file over the findings; the map of every iteration is    *)
(* looked at, so that the next iteration starts from a value                *)
RECURSIVE InsertFindings(_, _, _)
InsertFindings(m, path, findings) ==
    IF findings = <<>> \/ Cardinality(DOMAIN m) < 0 THEN m
    ELSE InsertFindings(PushStep(m, KeyOfFinding(Head(findings)),
                                 InfoOfFinding(path, Head(findings))),
                        path, Tail(findings))

(* a key list that records only the first finding's key *)
KeysInThisFileFirstOnly(findings) ==
    IF findings = <<>> THEN <<>> ELSE <<KeyOfFinding(findings[1])>>

(* keys_in_this_file: one key per finding, in order, repeats kept *)
KeysInThisFile(findings) == [i \in 1..Len(findings) |-> KeyOfFinding(findings[i])]

(* the keys file_map.remove(path) hands to remove_file *)
RemovedKeys(fm, path) == IF path \in DOMAIN fm THEN fm[path] ELSE <<>>

(* an invalidation that forgets the diagnostic aggregates *)
InvalidateNamesOnly ==
    /\ command_names_cache' = None
    /\ event_names_cache' = None
    /\ UNCHANGED diagnostic_info_cache

(* an invalidation that forgets the event names *)
InvalidateAllButEvents ==
    /\ command_names_cache' = None
    /\ UNCHANGED event_names_cache
    /\ diagnostic_info_cache' = EmptyMap

(* CacheManager::invalidate_all and CacheManager::invalidate_file *)
InvalidateAll ==
    /\ command_names_cache' = None
    /\ event_names_cache' = None
    /\ diagnostic_info_cache' = EmptyMap

InvalidateFile(path) ==
    /\ InvalidateAll
    /\ lens_data_cache' = MapRemove(lens_data_cache, path)
    /\ position_index_cache' = MapRemove(position_index_cache, path)

UnchangedCaches ==
    UNCHANGED <<command_names_cache, event_names_cache, diagnostic_info_cache,
                lens_data_cache, position_index_cache>>

Call(op, path, findings, purged) ==
    [op |-> op, path |-> path, findings |-> findings, purged |-> purged]

(* a call made on the index directly: it is kept in last, with the keys     *)
(* file_map listed for its path; or it is not kept                          *)
Recorded(op, path, findings) ==
    /\ last' = Call(op, path, findings, SeqRange(RemovedKeys(file_map, path)))
    /\ UNCHANGED server

Unrecorded == UNCHANGED <<last, server>>

(* ProjectIndex::remove_file, run alone *)
RemoveFile(path) ==
    /\ map' = PurgeKeys(map, RemovedKeys(file_map, path), path)
    /\ file_map' = MapRemove(file_map, path)
    /\ IF path \in DOMAIN file_map THEN InvalidateFile(path) ELSE UnchangedCaches
    /\ parse_errors' = MapRemove(parse_errors, path)
    /\ UNCHANGED <<reference_limit, threads>>

(* ProjectIndex::add_file, run alone *)
AddFile(path, findings) ==
    /\ map' = InsertFindings(PurgeKeys(map, RemovedKeys(file_map, path), path),
                             path, findings)
    /\ file_map' = MapInsert(file_map, path, KeysInThisFile(findings))
    /\ InvalidateFile(path)
    /\ parse_errors' = MapRemove(parse_errors, path)
    /\ UNCHANGED <<reference_limit, threads>>

(* ProjectIndex::set_parse_error *)
SetParseError(path, error) ==
    /\ parse_errors' = MapInsert(parse_errors, path, error)
    /\ UNCHANGED <<map, file_map, reference_limit, threads>>
    /\ UnchangedCaches

(* ProjectIndex::get_parse_error *)
GetParseError(errors, path) == IF path \in DOMAIN errors THEN Some(errors[path]) ELSE None

(* ProjectIndex::get_locations *)
GetLocations(m, entity, name) ==
    IF IndexKey(entity, name) \in DOMAIN m THEN m[IndexKey(entity, name)] ELSE <<>>

----------------------------------------------------------------------------
(* ProjectIndex::get_diagnostic_info and ProjectIndex::get_all_names        *)

(* locations.iter().any(|l| l.behavior == ..) over the locations of key *)
ComputeDiagnosticInfo(m, key) ==
    LET locations == IF key \in DOMAIN m THEN m[key] ELSE <<>>
    IN  [has_definition |-> \E l \in SeqRange(locations) : l.behavior = "Definition",
         has_calls      |-> \E l \in SeqRange(locations) : l.behavior = "Call",
         has_emitters   |-> \E l \in SeqRange(locations) : l.behavior = "Emit",
         has_listeners  |-> \E l \in SeqRange(locations) : l.behavior = "Listen"]

(* what get_diagnostic_info(key) returns: the cached aggregate if there is one *)
DiagnosticInfoResult(key) ==
    IF key \in DOMAIN diagnostic_info_cache
    THEN diagnostic_info_cache[key]
    ELSE ComputeDiagnosticInfo(map, key)

(* get_diagnostic_info stores what it computed on a miss *)
GetDiagnosticInfo(key) ==
    /\ diagnostic_info_cache' =
          IF key \in DOMAIN diagnostic_info_cache
          THEN diagnostic_info_cache
          ELSE MapInsert(diagnostic_info_cache, key, ComputeDiagnosticInfo(map, key))
    /\ UNCHANGED <<map, file_map, parse_errors, command_names_cache, event_names_cache,
                   lens_data_cache, position_index_cache, reference_limit, server, last, threads>>

(* e.value().iter().find(|l| l.behavior == Behavior::Definition).cloned() *)
FirstDefinition(locations) ==
    LET defs == SelectSeq(locations, LAMBDA l : l.behavior = "Definition")
    IN  IF defs = <<>> THEN None ELSE Some(Head(defs))

(* the pairs get_all_names collects from the map; the order of a DashMap's  *)
(* iteration is unspecified, so the Vec is kept as the set of its elements  *)
ComputeAllNames(m, entity) ==
    {[name |-> k.name, definition |-> FirstDefinition(m[k])] :
        k \in {x \in DOMAIN m : x.entity = entity}}

(* what get_all_names(entity) returns *)
AllNamesResult(entity) ==
    IF entity = "Command"
    THEN (IF command_names_cache # None THEN command_names_cache[1]
          ELSE ComputeAllNames(map, entity))
    ELSE IF entity = "Event"
    THEN (IF event_names_cache # None THEN event_names_cache[1]
          ELSE ComputeAllNames(map, entity))
    ELSE {}

(* get_all_names stores what it computed on a miss of the entity's cache *)
GetAllNames(entity) ==
    /\ command_names_cache' =
          IF entity = "Command" /\ command_names_cache = None
          THEN Some(ComputeAllNames(map, entity)) ELSE command_names_cache
    /\ event_names_cache' =
          IF entity = "Event" /\ event_names_cache = None
          THEN Some(ComputeAllNames(map, entity)) ELSE event_names_cache
    /\ UNCHANGED <<map, file_map, parse_errors, diagnostic_info_cache,
                   lens_data_cache, position_index_cache, reference_limit, server, last, threads>>

----------------------------------------------------------------------------
(* ProjectIndex::get_lens_data *)

(* the paths of the model in the order PathBuf compares them, and what      *)
(* path.extension() and path.file_name() give for each                      *)
SortedPaths == <<"app.ts", "cmd.rs", "lib.rs", "main.ts", "view.ts", "win.ts">>
Extension(path) ==
    IF path \in {"lib.rs", "cmd.rs"} THEN "rs" ELSE IF path = "notes.md" THEN "md" ELSE "ts"
FileName(path) == path

GoTo(fname) == [kind |-> "Go to", file |-> fname, count |-> 0]
References(n) == [kind |-> "references", file |-> "", count |-> n]
Lens(range, title, targets) == [range |-> range, title |-> title, targets |-> targets]

(* ProjectIndex::group_and_format_targets *)
GroupAndFormatTargets(targets, my_range, limit) ==
    LET files == {t.path : t \in SeqRange(targets)}
        sorted_files == SelectSeq(SortedPaths, LAMBDA p : p \in files)
    IN  IF targets = <<>> THEN <<>>
        ELSE IF Cardinality(files) <= limit
        THEN [i \in 1..Len(sorted_files) |->
                Lens(my_range, GoTo(FileName(sorted_files[i])),
                     SelectSeq(targets, LAMBDA t : t.path = sorted_files[i]))]
        ELSE <<Lens(my_range, References(Len(targets)), targets)>>

(* the lenses of one occurrence my_loc of the current file *)
LensForLocation(my_loc, targets, path, limit) ==
    LET rust_targets == SelectSeq(targets, LAMBDA t : Extension(t.path) = "rs")
        frontend_targets == SelectSeq(targets, LAMBDA t : Extension(t.path) # "rs")
    IN  IF Extension(path) = "rs"
        THEN GroupAndFormatTargets(frontend_targets, my_loc.range, limit)
        ELSE (IF rust_targets # <<>>
              THEN GroupAndFormatTargets(rust_targets, my_loc.range, limit) ELSE <<>>)
             \o
             (IF frontend_targets # <<>>
              THEN GroupAndFormatTargets(frontend_targets, my_loc.range, limit) ELSE <<>>)

RECURSIVE LensForLocations(_, _, _, _)
LensForLocations(current_file_locations, targets, path, limit) ==
    IF current_file_locations = <<>> THEN <<>>
    ELSE LensForLocation(Head(current_file_locations), targets, path, limit)
         \o LensForLocations(Tail(current_file_locations), targets, path, limit)

(* the body of the loop over the keys of the file, for one key *)
LensForKey(all_locations, path, limit) ==
    LET current_file_locations == SelectSeq(all_locations, LAMBDA l : l.path = path)
        targets == SelectSeq(all_locations, LAMBDA l : l.path # path)
    IN  IF targets = <<>> THEN <<>>
        ELSE LensForLocations(current_file_locations, targets, path, limit)

(* the loop over the keys of the file; processed_keys skips repeated keys *)
RECURSIVE LensForKeys(_, _, _, _, _)
LensForKeys(m, path, keys, processed_keys, limit) ==
    IF keys = <<>> THEN <<>>
    ELSE LET key == Head(keys)
             rest == LensForKeys(m, path, Tail(keys), processed_keys \cup {key}, limit)
         IN  IF key \in processed_keys \/ key \notin DOMAIN m THEN rest
             ELSE LensForKey(m[key], path, limit) \o rest

(* get_lens_data on a cache miss *)
ComputeLensData(m, fm, path, limit) ==
    IF path \notin DOMAIN fm THEN <<>>
    ELSE LensForKeys(m, path, fm[path], {}, limit)

(* what get_lens_data(path) returns: the cached lenses if there are any *)
LensDataResult(path) ==
    IF path \in DOMAIN lens_data_cache THEN lens_data_cache[path]
    ELSE ComputeLensData(map, file_map, path, reference_limit)

(* get_lens_data caches what it computed, unless the path is not indexed *)
GetLensData(path) ==
    /\ lens_data_cache' =
          IF path \in DOMAIN lens_data_cache \/ path \notin DOMAIN file_map
          THEN lens_data_cache
          ELSE MapInsert(lens_data_cache, path,
                         ComputeLensData(map, file_map, path, reference_limit))
    /\ UNCHANGED <<map, file_map, parse_errors, command_names_cache, event_names_cache,
                   diagnostic_info_cache, position_index_cache, reference_limit, server,
                   last, threads>>

(* config::load_configuration: the referenceLimit setting is stored; the    *)
(* lenses that are cached stay as they are                                  *)
LoadConfiguration(limit) ==
    /\ reference_limit' = limit
    /\ UNCHANGED <<map, file_map, parse_errors, command_names_cache, event_names_cache,
                   diagnostic_info_cache, lens_data_cache, position_index_cache, server,
                   last, threads>>

----------------------------------------------------------------------------
(* Position lookup: indexer/position.rs and ProjectIndex::get_key_at_position *)

(* position::is_position_in_range *)
IsPositionInRange(pos, range) ==
    IF pos.line < range.start.line \/ pos.line > range.end.line THEN FALSE
    ELSE IF range.start.line = range.end.line
         THEN pos.character >= range.start.character /\ pos.character < range.end.character
    ELSE IF pos.line = range.start.line THEN pos.character >= range.start.character
    ELSE IF pos.line = range.end.line THEN pos.character < range.end.character
    ELSE TRUE

IndexEntry(range, key) == [range |-> range, key |-> key]

(* the inner loops of build_position_index: the locations of path under one key *)
EntriesOfKey(m, key, path) ==
    IF key \notin DOMAIN m THEN <<>>
    ELSE LET mine == SelectSeq(m[key], LAMBDA loc : loc.path = path)
         IN  [i \in 1..Len(mine) |-> IndexEntry(mine[i].range, key)]

(* the outer loop of build_position_index, over keys_in_file with its repeats *)
RECURSIVE EntriesOfKeys(_, _, _)
EntriesOfKeys(m, keys, path) ==
    IF keys = <<>> THEN <<>>
    ELSE EntriesOfKey(m, Head(keys), path) \o EntriesOfKeys(m, Tail(keys), path)

(* position_index.sort_by(start line, then start character): a stable sort *)
InsertByStart(sorted, x) ==
    LET k == Cardinality({i \in 1..Len(sorted) : PosLE(sorted[i].range.start, x.range.start)})
    IN  SubSeq(sorted, 1, k) \o <<x>> \o SubSeq(sorted, k + 1, Len(sorted))

RECURSIVE SortByStart(_)
SortByStart(s) ==
    IF s = <<>> THEN <<>>
    ELSE InsertByStart(SortByStart(SubSeq(s, 1, Len(s) - 1)), s[Len(s)])

(* position::build_position_index *)
BuildPositionIndex(path, fm, m) ==
    IF path \notin DOMAIN fm THEN <<>>
    ELSE SortByStart(EntriesOfKeys(m, fm[path], path))

(* index.partition_point(|(range, _)| range.start <= position): the first   *)
(* index, from 0, whose entry fails the test                                *)
PartitionPoint(index, position) ==
    CHOOSE idx \in 0..Len(index) :
        /\ \A j \in 1..idx : PosLE(index[j].range.start, position)
        /\ idx < Len(index) => ~PosLE(index[idx + 1].range.start, position)

(* the location the inner loop of binary_search_position returns for one    *)
(* candidate entry, if any                                                  *)
LocationOfEntry(entry, position, m, path) ==
    IF ~IsPositionInRange(position, entry.range) \/ entry.key \notin DOMAIN m THEN None
    ELSE LET hits == SelectSeq(m[entry.key],
                               LAMBDA loc : loc.path = path /\ IsPositionInRange(position, loc.range))
         IN  IF hits = <<>> THEN None ELSE Some([key |-> entry.key, loc |-> Head(hits)])

(* the candidates binary_search_position looks at, as indices from 1:       *)
(* idx.saturating_sub(2) .. min(idx + 2, index.len())                       *)
CandidateWindow(idx, len) ==
    {i \in 1..len : i >= (IF idx >= 2 THEN idx - 2 ELSE 0) + 1 /\ i <= idx + 2}

(* position::binary_search_position *)
BinarySearchPosition(index, position, m, path) ==
    LET idx == PartitionPoint(index, position)
        found == {i \in CandidateWindow(idx, Len(index)) :
                     LocationOfEntry(index[i], position, m, path) # None}
    IN  IF found = {} THEN None
        ELSE LocationOfEntry(index[CHOOSE i \in found : \A j \in found : i <= j],
                             position, m, path)

(* what get_key_at_position(path, pos) returns: the search runs on the      *)
(* cached array if there is one, on a freshly built one otherwise           *)
KeyAtPositionResult(path, pos) ==
    IF path \in DOMAIN position_index_cache
    THEN BinarySearchPosition(position_index_cache[path], pos, map, path)
    ELSE BinarySearchPosition(BuildPositionIndex(path, file_map, map), pos, map, path)

(* get_key_at_position caches the array it built *)
GetKeyAtPosition(path, pos) ==
    /\ position_index_cache' =
          IF path \in DOMAIN position_index_cache THEN position_index_cache
          ELSE MapInsert(position_index_cache, path, BuildPositionIndex(path, file_map, map))
    /\ UNCHANGED <<map, file_map, parse_errors, command_names_cache, event_names_cache,
                   diagnostic_info_cache, lens_data_cache, reference_limit, server, last, threads>>

(* the lookup before the position index: a scan of the file's keys and of   *)
(* their locations (indexer.rs, get_key_at_position)                        *)
RECURSIVE LinearScanKeys(_, _, _, _)
LinearScanKeys(keys, position, m, path) ==
    IF keys = <<>> THEN None
    ELSE LET hits == IF Head(keys) \in DOMAIN m
                     THEN SelectSeq(m[Head(keys)],
                                    LAMBDA loc : loc.path = path
                                                 /\ IsPositionInRange(position, loc.range))
                     ELSE <<>>
         IN  IF hits # <<>> THEN Some([key |-> Head(keys), loc |-> Head(hits)])
             ELSE LinearScanKeys(Tail(keys), position, m, path)

LinearScanPosition(path, position) ==
    IF path \notin DOMAIN file_map THEN None
    ELSE LinearScanKeys(file_map[path], position, map, path)

----------------------------------------------------------------------------
(* The same calls on an index shared by threads: every operation on a       *)
(* DashMap (remove, entry, get, insert) is atomic, a call is a sequence of  *)
(* them, and the calls of different threads interleave between them         *)

Threads == {"t1", "t2"}

NoKey == IndexKey("", "")

(* the locals of a call: where it is, its arguments, the keys it still has  *)
(* to purge, the findings it still has to push, and what a read returned;   *)
(* writer is the write call that was in flight when the read ran            *)
IdleThread ==
    [pc |-> "idle", op |-> "", path |-> "", findings |-> <<>>, keys |-> <<>>,
     pending |-> <<>>, key |-> NoKey, result |-> <<>>, writer |-> None]

UnchangedByStep ==
    UNCHANGED <<command_names_cache, event_names_cache, diagnostic_info_cache,
                lens_data_cache, position_index_cache, reference_limit, server, last>>

(* a thread enters add_file(FileIndex { path, findings }) *)
StartAddFile(t, path, findings) ==
    /\ threads[t].pc = "idle"
    /\ threads' = [threads EXCEPT ![t] =
          [IdleThread EXCEPT !.pc = "file_map_remove", !.op = "add_file",
                             !.path = path, !.findings = findings, !.pending = findings]]
    /\ UNCHANGED <<map, file_map, parse_errors>>
    /\ UnchangedByStep

(* a thread enters remove_file(path) *)
StartRemoveFile(t, path) ==
    /\ threads[t].pc = "idle"
    /\ threads' = [threads EXCEPT ![t] =
          [IdleThread EXCEPT !.pc = "file_map_remove", !.op = "remove_file", !.path = path]]
    /\ UNCHANGED <<map, file_map, parse_errors>>
    /\ UnchangedByStep

(* where remove_file goes once it is done with the key at the head of keys *)
AfterKey(keys) == IF Tail(keys) # <<>> THEN "retain" ELSE "invalidate_removed"

(* remove_file: if let Some((_, keys)) = self.file_map.remove(path) *)
StepFileMapRemove(t) ==
    LET r == threads[t] keys == RemovedKeys(file_map, r.path) IN
    /\ r.pc = "file_map_remove"
    /\ file_map' = MapRemove(file_map, r.path)
    /\ threads' = [threads EXCEPT ![t].keys = keys,
                                  ![t].pc = IF r.path \notin DOMAIN file_map THEN "parse_errors_remove"
                                            ELSE IF keys # <<>> THEN "retain"
                                            ELSE "invalidate_removed"]
    /\ UNCHANGED <<map, parse_errors>>
    /\ UnchangedByStep

(* remove_file: self.map.entry(key).and_modify(|locs| locs.retain(..)) *)
StepRetain(t) ==
    LET r == threads[t] IN
    /\ r.pc = "retain"
    /\ map' = RetainStep(map, Head(r.keys), r.path)
    /\ threads' = [threads EXCEPT ![t].pc = "check_empty"]
    /\ UNCHANGED <<file_map, parse_errors>>
    /\ UnchangedByStep

(* remove_file: if self.map.get(&key).is_some_and(|locs| locs.is_empty()) *)
StepCheckEmpty(t) ==
    LET r == threads[t] IN
    /\ r.pc = "check_empty"
    /\ threads' = IF IsEmptyEntry(map, Head(r.keys))
                  THEN [threads EXCEPT ![t].pc = "prune"]
                  ELSE [threads EXCEPT ![t].pc = AfterKey(r.keys), ![t].keys = Tail(r.keys)]
    /\ UNCHANGED <<map, file_map, parse_errors>>
    /\ UnchangedByStep

(* remove_file: self.map.remove(&key) *)
StepPrune(t) ==
    LET r == threads[t] IN
    /\ r.pc = "prune"
    /\ map' = PruneStep(map, Head(r.keys))
    /\ threads' = [threads EXCEPT ![t].pc = AfterKey(r.keys), ![t].keys = Tail(r.keys)]
    /\ UNCHANGED <<file_map, parse_errors>>
    /\ UnchangedByStep

(* remove_file: self.cache.invalidate_file(path). Its five writes go to     *)
(* five caches and nothing else, and every call touches at most one cache,  *)
(* so they are taken in one step                                            *)
StepInvalidateRemoved(t) ==
    LET r == threads[t] IN
    /\ r.pc = "invalidate_removed"
    /\ InvalidateFile(r.path)
    /\ threads' = [threads EXCEPT ![t].pc = "parse_errors_remove"]
    /\ UNCHANGED <<map, file_map, parse_errors, reference_limit, server, last>>

(* remove_file: self.parse_errors.remove(path); add_file goes on to its loop *)
StepParseErrorsRemove(t) ==
    LET r == threads[t] IN
    /\ r.pc = "parse_errors_remove"
    /\ parse_errors' = MapRemove(parse_errors, r.path)
    /\ threads' = [threads EXCEPT ![t].pc = IF r.op = "remove_file" THEN "done"
                                            ELSE IF r.pending # <<>> THEN "push"
                                            ELSE "invalidate_added"]
    /\ UNCHANGED <<map, file_map>>
    /\ UnchangedByStep

(* add_file: self.map.entry(key.clone()).or_default().push(info) *)
StepPush(t) ==
    LET r == threads[t] IN
    /\ r.pc = "push"
    /\ map' = PushStep(map, KeyOfFinding(Head(r.pending)), InfoOfFinding(r.path, Head(r.pending)))
    /\ threads' = [threads EXCEPT ![t].pending = Tail(r.pending),
                                  ![t].pc = IF Tail(r.pending) # <<>> THEN "push"
                                            ELSE "invalidate_added"]
    /\ UNCHANGED <<file_map, parse_errors>>
    /\ UnchangedByStep

(* add_file: self.cache.invalidate_file(&path_ref) *)
StepInvalidateAdded(t) ==
    LET r == threads[t] IN
    /\ r.pc = "invalidate_added"
    /\ InvalidateFile(r.path)
    /\ threads' = [threads EXCEPT ![t].pc = "file_map_insert"]
    /\ UNCHANGED <<map, file_map, parse_errors, reference_limit, server, last>>

(* add_file: self.file_map.insert(path_ref, keys_in_this_file) *)
StepFileMapInsert(t) ==
    LET r == threads[t] IN
    /\ r.pc = "file_map_insert"
    /\ file_map' = MapInsert(file_map, r.path, KeysInThisFile(r.findings))
    /\ threads' = [threads EXCEPT ![t].pc = "done"]
    /\ UNCHANGED <<map, parse_errors>>
    /\ UnchangedByStep

(* the write calls in flight on other threads *)
WritersInFlight(t) ==
    {w \in Threads \ {t} : threads[w].op \in {"add_file", "remove_file"}
                           /\ threads[w].pc \notin {"idle", "done"}}

(* a thread runs get_locations(entity, name): one read of the map *)
CallGetLocations(t, key) ==
    /\ threads[t].pc = "idle"
    /\ threads' = [threads EXCEPT ![t] =
          [IdleThread EXCEPT !.pc = "done", !.op = "get_locations", !.key = key,
                             !.result = GetLocations(map, key.entity, key.name),
                             !.writer = IF WritersInFlight(t) = {} THEN None
                                        ELSE Some(threads[CHOOSE w \in WritersInFlight(t) : TRUE])]]
    /\ UNCHANGED <<map, file_map, parse_errors>>
    /\ UnchangedByStep

(* a thread enters get_key_at_position(path, pos); the position is used by  *)
(* the search only, which reads and returns, and is left out                *)
StartGetKeyAtPosition(t, path) ==
    /\ threads[t].pc = "idle"
    /\ threads' = [threads EXCEPT ![t] =
          [IdleThread EXCEPT !.pc = "position_cache_get", !.op = "get_key_at_position",
                             !.path = path]]
    /\ UNCHANGED <<map, file_map, parse_errors>>
    /\ UnchangedByStep

(* get_key_at_position: if let Some(index) = position_index_cache.get(path) *)
(* { return binary_search_position(..) }                                    *)
StepPositionCacheGet(t) ==
    LET r == threads[t] IN
    /\ r.pc = "position_cache_get"
    /\ threads' = [threads EXCEPT ![t].pc = IF r.path \in DOMAIN position_index_cache
                                            THEN "done" ELSE "build_position_index"]
    /\ UNCHANGED <<map, file_map, parse_errors>>
    /\ UnchangedByStep

(* get_key_at_position: let position_index = build_position_index(..), run *)
(* under the guard on the key list of the file                              *)
StepBuildPositionIndex(t) ==
    LET r == threads[t] IN
    /\ r.pc = "build_position_index"
    /\ threads' = [threads EXCEPT ![t].result = BuildPositionIndex(r.path, file_map, map),
                                  ![t].pc = "position_cache_insert"]
    /\ UNCHANGED <<map, file_map, parse_errors>>
    /\ UnchangedByStep

(* get_key_at_position: position_index_cache.insert(path, position_index) *)
StepPositionCacheInsert(t) ==
    LET r == threads[t] IN
    /\ r.pc = "position_cache_insert"
    /\ position_index_cache' = MapInsert(position_index_cache, r.path, r.result)
    /\ threads' = [threads EXCEPT ![t].pc = "done"]
    /\ UNCHANGED <<map, file_map, parse_errors, command_names_cache, event_names_cache,
                   diagnostic_info_cache, lens_data_cache, reference_limit, server, last>>

(* a thread enters get_diagnostic_info(key) *)
StartGetDiagnosticInfo(t, key) ==
    /\ threads[t].pc = "idle"
    /\ threads' = [threads EXCEPT ![t] =
          [IdleThread EXCEPT !.pc = "diagnostic_cache_get", !.op = "get_diagnostic_info",
                             !.key = key]]
    /\ UNCHANGED <<map, file_map, parse_errors>>
    /\ UnchangedByStep

(* get_diagnostic_info: if let Some(cached) = diagnostic_info_cache.get(key) *)
(* { return cached.clone() }                                                 *)
StepDiagnosticCacheGet(t) ==
    LET r == threads[t] IN
    /\ r.pc = "diagnostic_cache_get"
    /\ threads' = IF r.key \in DOMAIN diagnostic_info_cache
                  THEN [threads EXCEPT ![t].pc = "done",
                                       ![t].result = diagnostic_info_cache[r.key]]
                  ELSE [threads EXCEPT ![t].pc = "compute_diagnostic_info"]
    /\ UNCHANGED <<map, file_map, parse_errors>>
    /\ UnchangedByStep

(* get_diagnostic_info: let locations = self.map.get(key)..; let info = .. *)
StepComputeDiagnosticInfo(t) ==
    LET r == threads[t] IN
    /\ r.pc = "compute_diagnostic_info"
    /\ threads' = [threads EXCEPT ![t].result = ComputeDiagnosticInfo(map, r.key),
                                  ![t].pc = "diagnostic_cache_insert"]
    /\ UNCHANGED <<map, file_map, parse_errors>>
    /\ UnchangedByStep

(* get_diagnostic_info: diagnostic_info_cache.insert(key.clone(), info) *)
StepDiagnosticCacheInsert(t) ==
    LET r == threads[t] IN
    /\ r.pc = "diagnostic_cache_insert"
    /\ diagnostic_info_cache' = MapInsert(diagnostic_info_cache, r.key, r.result)
    /\ threads' = [threads EXCEPT ![t].pc = "done"]
    /\ UNCHANGED <<map, file_map, parse_errors, command_names_cache, event_names_cache,
                   lens_data_cache, position_index_cache, reference_limit, server, last>>

(* The locks of the index. A DashMap locks the shard of the entry it works  *)
(* on, for reading (get, iter) or for writing (entry, insert, remove,       *)
(* clear); the two name caches are RwLocks. Every map is taken as one       *)
(* shard, the case in which calls wait for each other most. A call is the   *)
(* sequence of its lock instructions: acquire takes a lock into a guard,    *)
(* release drops the guard; a statement that uses a map takes the lock and  *)
(* gives it back.                                                           *)
Acquire(lock, mode) == [act |-> "acquire", lock |-> lock, mode |-> mode]
Release(lock) == [act |-> "release", lock |-> lock, mode |-> ""]
Use(lock, mode) == <<Acquire(lock, mode), Release(lock)>>

(* the instructions of a loop that runs n times *)
Repeat(n, instructions) ==
    [i \in 1..(n * Len(instructions)) |-> instructions[((i - 1) % Len(instructions)) + 1]]

(* CacheManager::invalidate_file *)
InvalidateFileLocks ==
    Use("command_names", "write") \o Use("event_names", "write") \o Use("diagnostic_info", "write")
    \o Use("lens_data", "write") \o Use("position_index", "write")

(* a test that keeps its guard on the entry *)
CheckEmptyLocksKept == <<Acquire("map", "read")>>

(* remove_file: self.map.get(&key).is_some_and(..) gives its guard to the   *)
(* closure, which drops it                                                  *)
CheckEmptyLocks == Use("map", "read")

(* remove_file on a file with n keys listed (present) or on an unknown      *)
(* file; prune tells whether the lists become empty                         *)
RemoveFileLocks(present, n, prune) ==
    Use("file_map", "write")
    \o (IF present
        THEN Repeat(n, Use("map", "write") \o CheckEmptyLocks
                       \o (IF prune THEN Use("map", "write") ELSE <<>>))
             \o InvalidateFileLocks
        ELSE <<>>)
    \o Use("parse_errors", "write")

(* add_file with n findings on a file that had old keys listed *)
AddFileLocks(present, old, prune, n) ==
    RemoveFileLocks(present, old, prune)
    \o Repeat(n, Use("map", "write"))
    \o InvalidateFileLocks
    \o Use("file_map", "write")

(* get_key_at_position: on a hit the guard on the cached index lives        *)
(* through the search; on a miss the index is built under the guard on the  *)
(* key list of the file, searched and stored                                *)
GetKeyAtPositionLocks(hit, present, n, candidates) ==
    IF hit
    THEN <<Acquire("position_index", "read")>> \o Repeat(candidates, Use("map", "read"))
         \o <<Release("position_index")>>
    ELSE Use("position_index", "read")
         \o (IF present
             THEN <<Acquire("file_map", "read")>> \o Repeat(n, Use("map", "read"))
                  \o <<Release("file_map")>>
             ELSE Use("file_map", "read"))
         \o Repeat(candidates, Use("map", "read"))
         \o Use("position_index", "write")

(* get_lens_data: the guard on the key list of the file lives to the end of *)
(* the call                                                                 *)
GetLensDataLocks(hit, present, n) ==
    Use("lens_data", "read")
    \o (IF hit THEN <<>>
        ELSE IF ~present THEN Use("file_map", "read")
        ELSE <<Acquire("file_map", "read")>> \o Repeat(n, Use("map", "read"))
             \o Use("lens_data", "write") \o <<Release("file_map")>>)

(* get_all_names and get_diagnostic_info: read the cache, on a miss read    *)
(* the map and write the cache                                              *)
GetAllNamesLocks(cache, hit) ==
    Use(cache, "read") \o (IF hit THEN <<>> ELSE Use("map", "read") \o Use(cache, "write"))

GetDiagnosticInfoLocks(hit) ==
    Use("diagnostic_info", "read")
    \o (IF hit THEN <<>> ELSE Use("map", "read") \o Use("diagnostic_info", "write"))

(* get_document_symbols and search_workspace_symbols *)
GetDocumentSymbolsLocks(present, n) ==
    IF present
    THEN <<Acquire("file_map", "read")>> \o Repeat(n, Use("map", "read")) \o <<Release("file_map")>>
    ELSE Use("file_map", "read")

SearchWorkspaceSymbolsLocks == Use("map", "read")

(* the guards the other threads hold on a lock *)
HeldByOthers(t, lock) ==
    {g \in UNION {threads[u].held : u \in {v \in Threads \ {t} : threads[v].pc = "running"}} :
        g.lock = lock}

(* a read lock waits for the writer, a write lock for every guard, those of *)
(* the thread itself included                                               *)
CanLock(t, lock, mode) ==
    /\ \A g \in HeldByOthers(t, lock) : mode = "read" /\ g.mode = "read"
    /\ mode = "write" => \A g \in threads[t].held : g.lock # lock

(* a thread enters a call *)
StartCall(t, op, program) ==
    /\ threads[t].pc = "idle"
    /\ threads' = [threads EXCEPT ![t] =
          [pc |-> "running", op |-> op, program |-> program, held |-> {}]]
    /\ UNCHANGED <<map, file_map, parse_errors>>
    /\ UnchangedByStep

(* a thread runs its next lock instruction, or returns *)
StepLock(t) ==
    LET r == threads[t] IN
    /\ r.pc = "running"
    /\ IF r.program = <<>>
       THEN threads' = [threads EXCEPT ![t] = [IdleThread EXCEPT !.pc = "done", !.op = r.op]]
       ELSE LET i == Head(r.program) IN
            /\ i.act = "acquire" => CanLock(t, i.lock, i.mode)
            /\ threads' = [threads EXCEPT ![t].program = Tail(r.program),
                              ![t].held = IF i.act = "acquire"
                                          THEN r.held \cup {[lock |-> i.lock, mode |-> i.mode]}
                                          ELSE {g \in r.held : g.lock # i.lock}]
    /\ UNCHANGED <<map, file_map, parse_errors>>
    /\ UnchangedByStep

----------------------------------------------------------------------------
(* Processing of one file: file_processor.rs and the copy of main.rs        *)

(* what tree_parser::parse(path, content) returns: a file index or an error *)
Ok(findings) == [ok |-> TRUE, findings |-> findings, error |-> ""]
Err(error) == [ok |-> FALSE, findings |-> <<>>, error |-> error]

SUPPORTED_EXTENSIONS == {"rs", "ts", "tsx", "js", "jsx", "vue", "svelte"}

IsSupportedFile(path) == Extension(path) \in SUPPORTED_EXTENSIONS

UnchangedIndex ==
    /\ UNCHANGED <<map, file_map, parse_errors, reference_limit, threads>>
    /\ UnchangedCaches

(* file_processor::process_file_content, parsed being the parse result *)
ProcessFileContentResult(path, parsed) == IsSupportedFile(path) /\ parsed.ok

ProcessFileContent(path, parsed) ==
    IF ~IsSupportedFile(path) THEN UnchangedIndex
    ELSE IF parsed.ok THEN AddFile(path, parsed.findings)
    ELSE SetParseError(path, parsed.error)

(* process_file_content of main.rs: a parse that succeeds clears the error  *)
(* of the path, as add_file does again; a failed parse stores the error and *)
(* then removes the file, which removes the error again                     *)
BackendProcessFileContent(path, parsed) ==
    IF ~IsSupportedFile(path) THEN UnchangedIndex
    ELSE IF parsed.ok THEN AddFile(path, parsed.findings)
    ELSE RemoveFile(path)

----------------------------------------------------------------------------
(* Backend::did_change: the debounced re-index of an edited file            *)

MaxEdits == 3           \* change notifications handled in one behaviour

Handlers == {"h1", "h2"}

IdleHandler ==
    [pc |-> "idle", path |-> "", content |-> Ok(<<>>), edit |-> 0, old_task |-> None, task |-> None]

(* the notifications that have arrived so far *)
EditsStarted ==
    Len(tasks) + Cardinality({g \in Handlers : handlers[g].pc \in {"remove", "abort", "spawn"}})

(* a task as tokio::spawn creates it: it sleeps, then runs, then publishes; *)
(* edit numbers the notification that spawned it, runs counts its calls of  *)
(* process_file_content, was is where an abort found it                     *)
SpawnedTask(path, content, edit) ==
    [pc |-> "sleeping", was |-> "", path |-> path, content |-> content, edit |-> edit,
     runs |-> 0, old_keys |-> <<>>, new_keys |-> <<>>, affected_files |-> {}, published |-> {}]

UnchangedHandlerFrame ==
    /\ UNCHANGED <<map, file_map, parse_errors, reference_limit, last, threads>>
    /\ UnchangedCaches

(* the notification arrives: let content = change.text *)
StartDidChange(h, path, content) ==
    /\ handlers[h].pc = "idle"
    /\ EditsStarted < MaxEdits
    /\ handlers' = [handlers EXCEPT ![h] =
          [IdleHandler EXCEPT !.pc = "remove", !.path = path, !.content = content,
                              !.edit = EditsStarted + 1]]
    /\ UNCHANGED <<debounce_tasks, tasks>>
    /\ UnchangedHandlerFrame

(* if let Some((_key, old_task)) = self.debounce_tasks.remove(&path) *)
StepTasksRemove(h) ==
    LET r == handlers[h] IN
    /\ r.pc = "remove"
    /\ debounce_tasks' = MapRemove(debounce_tasks, r.path)
    /\ handlers' = IF r.path \in DOMAIN debounce_tasks
                   THEN [handlers EXCEPT ![h].pc = "abort",
                                         ![h].old_task = Some(debounce_tasks[r.path])]
                   ELSE [handlers EXCEPT ![h].pc = "spawn"]
    /\ UNCHANGED tasks
    /\ UnchangedHandlerFrame

(* JoinHandle::abort: a task that sleeps or awaits a publish is cancelled   *)
(* there, a task that has finished is left as it is                         *)
Abort(task) ==
    IF task.pc \in {"sleeping", "publishing"}
    THEN [task EXCEPT !.pc = "cancelled", !.was = task.pc]
    ELSE task

(* old_task.abort() *)
StepAbort(h) ==
    LET r == handlers[h] IN
    /\ r.pc = "abort"
    /\ tasks' = [tasks EXCEPT ![r.old_task[1]] = Abort(@)]
    /\ handlers' = [handlers EXCEPT ![h].pc = "spawn"]
    /\ UNCHANGED debounce_tasks
    /\ UnchangedHandlerFrame

(* let task = tokio::spawn(async move { ... }) *)
StepSpawn(h) ==
    LET r == handlers[h] IN
    /\ r.pc = "spawn"
    /\ tasks' = Append(tasks, SpawnedTask(r.path, r.content, r.edit))
    /\ handlers' = [handlers EXCEPT ![h].pc = "insert", ![h].task = Some(Len(tasks) + 1)]
    /\ UNCHANGED debounce_tasks
    /\ UnchangedHandlerFrame

(* self.debounce_tasks.insert(path, task): a handle the map held for the    *)
(* path is dropped, which detaches its task and does not abort it           *)
StepTasksInsert(h) ==
    LET r == handlers[h] IN
    /\ r.pc = "insert"
    /\ debounce_tasks' = MapInsert(debounce_tasks, r.path, r.task[1])
    /\ handlers' = [handlers EXCEPT ![h] = IdleHandler]
    /\ UNCHANGED tasks
    /\ UnchangedHandlerFrame

(* the keys file_map lists for a path, none if it lists none *)
KeysOf(fm, path) == IF path \in DOMAIN fm THEN fm[path] ELSE <<>>

(* the affected files, had the old keys been left out *)
AffectedFilesNewKeysOnly(m, path, old_keys, new_keys) ==
    {path} \cup {loc.path : loc \in UNION {SeqRange(m[key]) :
                                  key \in SeqRange(new_keys) \cap DOMAIN m}}

(* the edited file and the files that hold a location of one of the keys *)
AffectedFiles(m, path, old_keys, new_keys) ==
    {path} \cup {loc.path : loc \in UNION {SeqRange(m[key]) :
                                  key \in (SeqRange(old_keys) \cup SeqRange(new_keys)) \cap DOMAIN m}}

(* a task runs on although it was cancelled in its sleep *)
MayRunCancelled(task) == task.pc = "sleeping" \/ (task.pc = "cancelled" /\ task.was = "sleeping")

(* tokio::time::sleep(Duration::from_millis(300)).await: the task goes on   *)
(* unless it was cancelled                                                  *)
MayRun(task) == task.pc = "sleeping"

(* the task after its sleep, up to its first publish: it reads the old keys *)
(* of the path, processes the content and collects the affected files; no   *)
(* await lies in between (no parse error is left to log, process_file_      *)
(* content having removed it)                                               *)
TaskRun(id) ==
    LET task == tasks[id]
        processed == IsSupportedFile(task.path)
    IN  /\ MayRun(task)
        /\ BackendProcessFileContent(task.path, task.content)
        /\ tasks' = [tasks EXCEPT ![id] =
              [task EXCEPT
                 !.runs = task.runs + 1,
                 !.old_keys = KeysOf(file_map, task.path),
                 !.new_keys = KeysOf(file_map', task.path),
                 !.affected_files =
                     IF processed
                     THEN AffectedFiles(map', task.path, KeysOf(file_map, task.path),
                                        KeysOf(file_map', task.path))
                     ELSE {},
                 !.pc = IF processed THEN "publishing" ELSE "done"]]
        /\ UNCHANGED <<debounce_tasks, handlers, last>>

(* client.publish_diagnostics(uri, diagnostics, None).await for one of the  *)
(* affected files, in the order the HashSet yields them                     *)
TaskPublish(id, file) ==
    LET task == tasks[id] IN
    /\ task.pc = "publishing"
    /\ file \in task.affected_files \ task.published
    /\ tasks' = [tasks EXCEPT ![id] =
          [task EXCEPT !.published = task.published \cup {file},
                       !.pc = IF task.published \cup {file} = task.affected_files
                              THEN "done" ELSE "publishing"]]
    /\ UNCHANGED <<debounce_tasks, handlers>>
    /\ UnchangedHandlerFrame

----------------------------------------------------------------------------
(* capabilities/definition.rs: handle_goto_definition                       *)

(* an origin that looks for occurrences of its own behavior *)
SameBehavior(behavior) == behavior

(* every origin looks for the Definition *)
DefinitionForAll(behavior) == "Definition"

(* match origin_loc.behavior { .. }: the behavior the targets must have *)
AdjacentBehavior(behavior) ==
    CASE behavior = "Definition" -> "Call"
      [] behavior = "Call" -> "Definition"
      [] behavior = "Emit" -> "Listen"
      [] behavior = "Listen" -> "Emit"

(* the filter over all_refs *)
IsTarget(target, origin_loc) ==
    IF target.range = origin_loc.range /\ target.path = origin_loc.path THEN FALSE
    ELSE target.behavior = AdjacentBehavior(origin_loc.behavior)

(* let targets = all_refs.iter().filter(..).collect() *)
ResolveTargets(m, key, origin_loc) ==
    SelectSeq(GetLocations(m, key.entity, key.name), LAMBDA target : IsTarget(target, origin_loc))

LocationLink(origin_loc, target) ==
    [origin_selection_range |-> Some(origin_loc.range), target_uri |-> target.path,
     target_range |-> target.range, target_selection_range |-> target.range]

(* what handle_goto_definition returns for a position of a file *)
GotoDefinitionResult(path, position) ==
    LET at == KeyAtPositionResult(path, position) IN
    IF at = None THEN None
    ELSE LET targets == ResolveTargets(map, at[1].key, at[1].loc)
         IN  IF targets = <<>> THEN None
             ELSE Some([i \in 1..Len(targets) |-> LocationLink(at[1].loc, targets[i])])

(* the request leaves the index as get_key_at_position leaves it *)
GotoDefinition(path, position) == GetKeyAtPosition(path, position)

----------------------------------------------------------------------------
(* syntax.rs: names and types as compute_file_diagnostics compares them.    *)
(* A name is the sequence of its characters; a type is the sequence of its  *)
(* tokens, "Vec<String>" being <<"Vec<", "String", ">">> and "any[]" being  *)
(* <<"any", "[]">>                                                          *)

(* char::to_ascii_uppercase on the letters of the model *)
ToAsciiUppercase(c) ==
    CASE c = "a" -> "A" [] c = "b" -> "B" [] c = "i" -> "I" [] OTHER -> c

(* snake_to_camel *)
SnakeToCamel(s) ==
    LET RECURSIVE From(_, _)
        From(rest, capitalize) ==
            IF rest = <<>> THEN <<>>
            ELSE IF Head(rest) = "_" THEN From(Tail(rest), TRUE)
            ELSE IF capitalize THEN <<ToAsciiUppercase(Head(rest))>> \o From(Tail(rest), FALSE)
            ELSE <<Head(rest)>> \o From(Tail(rest), FALSE)
    IN  From(s, FALSE)

(* should_rename_to_camel: an attribute is the sequence of its words *)
ShouldRenameToCamel(attributes) ==
    /\ attributes # None
    /\ \E i \in 1..Len(attributes[1]) :
          {"serde", "rename_all", "camelCase"} \subseteq SeqRange(attributes[1][i])

(* extract_result_ok_type: the first type argument of Result<..>, found at  *)
(* the first comma outside nested angle brackets                            *)
ExtractResultOkType(rust_type) ==
    IF rust_type # <<>> /\ Head(rust_type) = "Result<"
    THEN LET inner == SubSeq(rust_type, 2, Len(rust_type) - 1)
             Depth(i) == Cardinality({j \in 1..i : inner[j] \in {"Vec<", "Option<", "HashMap<", "Result<"}})
                         - Cardinality({j \in 1..i : inner[j] = ">"})
             commas == {i \in 1..Len(inner) : inner[i] = "," /\ Depth(i) = 0}
         IN  IF commas = {} THEN inner
             ELSE SubSeq(inner, 1, (CHOOSE i \in commas : \A j \in commas : i <= j) - 1)
    ELSE rust_type

(* map_rust_type_to_ts *)
RECURSIVE MapRustTypeToTs(_)
MapRustTypeToTs(rust_type) ==
    LET RECURSIVE TrimStart(_, _)
        TrimStart(t, token) ==
            IF t # <<>> /\ Head(t) = token THEN TrimStart(Tail(t), token) ELSE t
        rt == TrimStart(TrimStart(ExtractResultOkType(rust_type), "&"), "mut ")
    IN  IF rt \in {<<"String">>, <<"str">>} THEN <<"string">>
        ELSE IF rt \in {<<n>> : n \in {"u8", "i8", "u16", "i16", "u32", "i32", "u64", "i64",
                                        "f32", "f64", "usize", "isize"}} THEN <<"number">>
        ELSE IF rt = <<"bool">> THEN <<"boolean">>
        ELSE IF rt # <<>> /\ Head(rt) = "Vec<"
             THEN MapRustTypeToTs(SubSeq(rt, 2, Len(rt) - 1)) \o <<"[]">>
        ELSE IF rt # <<>> /\ Head(rt) = "Option<"
             THEN MapRustTypeToTs(SubSeq(rt, 2, Len(rt) - 1)) \o <<" | null">>
        ELSE IF rt # <<>> /\ Head(rt) = "HashMap<" THEN <<"Record<string, any>">>
        ELSE IF rt \in {<<"Value">>, <<"serde_json::Value">>} THEN <<"any">>
        ELSE rt

(* map_ts_type_to_rust: a type is the sequence of its tokens, an array type *)
(* ends with the token [] and a union holds a token with a bar              *)
RECURSIVE MapTsTypeToRust(_)
MapTsTypeToRust(ts_type) ==
    IF ts_type = <<"string">> THEN <<"String">>
    ELSE IF ts_type = <<"number">> THEN <<"i64">>
    ELSE IF ts_type = <<"boolean">> THEN <<"bool">>
    ELSE IF ts_type = <<"any">> THEN <<"serde_json::Value">>
    ELSE IF ts_type \in {<<"null">>, <<"undefined">>} THEN <<"()">>
    ELSE IF ts_type # <<>> /\ ts_type[Len(ts_type)] = "[]"
         THEN <<"Vec<">> \o MapTsTypeToRust(SubSeq(ts_type, 1, Len(ts_type) - 1)) \o <<">">>
    ELSE IF Len(ts_type) >= 2 /\ Head(ts_type) = "Array<" /\ ts_type[Len(ts_type)] = ">"
         THEN <<"Vec<">> \o MapTsTypeToRust(SubSeq(ts_type, 2, Len(ts_type) - 1)) \o <<">">>
    ELSE IF \E i \in 1..Len(ts_type) : ts_type[i] \in {" | null", " | undefined", " | "}
         THEN <<"serde_json::Value">>
    ELSE ts_type

----------------------------------------------------------------------------
(* capabilities/diagnostics.rs: compute_file_diagnostics                    *)

(* a diagnostic: the text of its message without the values, and the values *)
(* format! puts in, each a sequence of strings                              *)
Diagnostic(range, text, args) == [range |-> range, text |-> text, args |-> args]

(* the concatenation of F(s[1]), F(s[2]), ...: what the pushes of a loop    *)
(* over s leave in diagnostics                                              *)
RECURSIVE Flatten(_)
Flatten(ss) == IF ss = <<>> THEN <<>> ELSE Head(ss) \o Flatten(Tail(ss))

ConcatMap(s, F(_)) == Flatten([i \in 1..Len(s) |-> F(s[i])])

(* a search that finds no first occurrence *)
FirstRangeNone(local_locations, behavior) == None

(* .iter().find(..).map(|l| l.range) over the local locations *)
FirstRangeOf(local_locations, behavior) ==
    LET found == SelectSeq(local_locations, LAMBDA l : l.behavior = behavior)
    IN  IF found = <<>> THEN None ELSE Some(found[1].range)

(* let msg = match loc.behavior { .. }, and the push that follows it *)
PresenceDiagnostics(key, info, loc, first_call, first_emit) ==
    IF loc.behavior = "Definition" /\ key.entity = "Command" /\ ~info.has_calls
    THEN <<Diagnostic(loc.range, "Command is defined but never invoked in frontend", <<<<key.name>>>>)>>
    ELSE IF loc.behavior = "Call" /\ ~info.has_definition
    THEN IF first_call = Some(loc.range)
         THEN <<Diagnostic(loc.range, "Command is not defined in Rust backend", <<<<key.name>>>>)>>
         ELSE <<>>
    ELSE IF loc.behavior = "Listen" /\ ~info.has_emitters
    THEN <<Diagnostic(loc.range, "Event is listened for but never emitted", <<<<key.name>>>>)>>
    ELSE IF loc.behavior = "Emit" /\ ~info.has_listeners
    THEN IF first_emit = Some(loc.range)
         THEN <<Diagnostic(loc.range, "Event is emitted but no listeners found", <<<<key.name>>>>)>>
         ELSE <<>>
    ELSE <<>>

(* the words the checks look for that a token of the model has as a         *)
(* substring                                                                *)
WordsIn(token) ==
    CASE token = "State<" -> {"State"}
      [] token = "AppState" -> {"State"}
      [] token = "WindowConfig" -> {"Window"}
      [] token = "Option<" -> {"Option"}
      [] OTHER -> {token}

(* words.iter().any(|&s| p.type_name.contains(s)) *)
TypeContains(type_name, words) ==
    \E i \in 1..Len(type_name) : WordsIn(type_name[i]) \cap words # {}

(* the check of the arguments of a call against the parameters of the       *)
(* definition                                                               *)
ArgumentDiagnostics(key, loc, def) ==
    IF loc.parameters = None \/ def.parameters = None THEN <<>>
    ELSE
    LET ts_params == loc.parameters[1]
        filtered_rust_params ==
            SelectSeq(def.parameters[1], LAMBDA p :
                ~TypeContains(p.type_name, {"State", "AppHandle", "Window"}))
        Matches(rp, ts_p) == SnakeToCamel(rp.name) = ts_p.name \/ rp.name = ts_p.name
        ForTsParam(ts_p) ==
            LET found == SelectSeq(filtered_rust_params, LAMBDA rp : Matches(rp, ts_p)) IN
            IF found # <<>>
            THEN LET expected_ts_type == MapRustTypeToTs(found[1].type_name) IN
                 IF /\ ts_p.type_name # <<"any">>
                    /\ expected_ts_type # <<"any">>
                    /\ ts_p.type_name # expected_ts_type
                 THEN <<Diagnostic(loc.range, "Type mismatch for argument",
                                   <<ts_p.name, expected_ts_type, ts_p.type_name>>)>>
                 ELSE <<>>
            ELSE <<Diagnostic(loc.range, "Command does not expect argument",
                              <<<<key.name>>, ts_p.name>>)>>
        ForRustParam(rp) ==
            IF /\ ~\E i \in 1..Len(ts_params) : Matches(rp, ts_params[i])
               /\ ~TypeContains(rp.type_name, {"Option"})
            THEN <<Diagnostic(loc.range, "Missing required argument",
                              <<SnakeToCamel(rp.name), <<key.name>>>>)>>
            ELSE <<>>
    IN  ConcatMap(ts_params, ForTsParam) \o ConcatMap(filtered_rust_params, ForRustParam)

(* ts_ret.trim_start_matches('<').trim_end_matches('>') *)
TrimAngles(ts_ret) ==
    LET RECURSIVE TrimStart(_)
        TrimStart(t) == IF t # <<>> /\ Head(t) = "<" THEN TrimStart(Tail(t)) ELSE t
        RECURSIVE TrimEnd(_)
        TrimEnd(t) == IF t # <<>> /\ t[Len(t)] = ">" THEN TrimEnd(SubSeq(t, 1, Len(t) - 1)) ELSE t
    IN  TrimEnd(TrimStart(ts_ret))

(* the name get_locations is asked for when a type is looked up: a type of  *)
(* several tokens is the name of no entity                                  *)
TypeAsName(type_name) == IF Len(type_name) = 1 THEN type_name[1] ELSE ""

(* the check of the fields of an interface against those of a struct *)
FieldDiagnostics(loc, ts_type, id, sd) ==
    IF id.fields = None \/ sd.fields = None THEN <<>>
    ELSE
    LET rename_to_camel == ShouldRenameToCamel(sd.attributes)
        ForField(if_f) ==
            LET st_f == SelectSeq(sd.fields[1], LAMBDA f :
                            IF rename_to_camel THEN SnakeToCamel(f.name) = if_f.name
                            ELSE f.name = if_f.name)
            IN  IF st_f = <<>> THEN <<>>
                ELSE LET expected_f_type == MapRustTypeToTs(st_f[1].type_name) IN
                     IF /\ if_f.type_name # <<"any">>
                        /\ expected_f_type # <<"any">>
                        /\ if_f.type_name # expected_f_type
                     THEN <<Diagnostic(loc.range, "Type mismatch for field in return type",
                                       <<if_f.name, ts_type, expected_f_type, if_f.type_name>>)>>
                     ELSE <<>>
    IN  ConcatMap(id.fields[1], ForField)

(* the check of the return type a call gives against the definition's *)
ReturnTypeDiagnostics(m, key, loc, def) ==
    IF loc.return_type = None \/ def.return_type = None THEN <<>>
    ELSE
    LET ts_type == TrimAngles(loc.return_type[1])
        rust_ret == def.return_type[1]
        expected_ts_type == MapRustTypeToTs(rust_ret)
        struct_locs == GetLocations(m, "Struct", TypeAsName(rust_ret))
        iface_def == SelectSeq(GetLocations(m, "Interface", TypeAsName(ts_type)),
                               LAMBDA l : l.behavior = "Definition")
        struct_def == SelectSeq(struct_locs, LAMBDA l : l.behavior = "Definition")
    IN  IF ts_type = <<"any">> THEN <<>>
        ELSE IF struct_locs # <<>>
        THEN IF iface_def # <<>> /\ struct_def # <<>>
             THEN FieldDiagnostics(loc, ts_type, iface_def[1], struct_def[1])
             ELSE <<>>
        ELSE IF ts_type # expected_ts_type
        THEN <<Diagnostic(loc.range, "Return type mismatch for command",
                          <<<<key.name>>, expected_ts_type, ts_type>>)>>
        ELSE <<>>

(* the body of for loc in local_locations *)
LocationDiagnostics(m, key, info, locations, loc, first_call, first_emit) ==
    LET definition == SelectSeq(locations, LAMBDA l : l.behavior = "Definition") IN
    PresenceDiagnostics(key, info, loc, first_call, first_emit)
    \o (IF loc.behavior = "Call" /\ info.has_definition /\ definition # <<>>
        THEN ArgumentDiagnostics(key, loc, definition[1])
             \o ReturnTypeDiagnostics(m, key, loc, definition[1])
        ELSE <<>>)

(* the body of for key in &keys *)
KeyDiagnostics(m, path, key, info) ==
    LET locations == GetLocations(m, key.entity, key.name)
        local_locations == SelectSeq(locations, LAMBDA l : l.path = path)
        ForLoc(loc) ==
            LocationDiagnostics(m, key, info, locations, loc,
                                FirstRangeOf(local_locations, "Call"),
                                FirstRangeOf(local_locations, "Emit"))
    IN  ConcatMap(local_locations, ForLoc)

(* what compute_file_diagnostics(path) returns *)
FileDiagnosticsResult(path) ==
    IF GetParseError(parse_errors, path) # None THEN <<>>
    ELSE IF path \notin DOMAIN file_map THEN <<>>
    ELSE LET ForKey(key) == KeyDiagnostics(map, path, key, DiagnosticInfoResult(key))
         IN  ConcatMap(file_map[path], ForKey)

(* compute_file_diagnostics leaves the aggregates of the file's keys cached *)
ComputeFileDiagnostics(path) ==
    /\ diagnostic_info_cache' =
          IF GetParseError(parse_errors, path) # None \/ path \notin DOMAIN file_map
          THEN diagnostic_info_cache
          ELSE [key \in DOMAIN diagnostic_info_cache \cup SeqRange(file_map[path]) |->
                   DiagnosticInfoResult(key)]
    /\ UNCHANGED <<map, file_map, parse_errors, command_names_cache, event_names_cache,
                   lens_data_cache, position_index_cache, reference_limit, server, last, threads>>

----------------------------------------------------------------------------
(* tree_parser: parse_frontend (frontend_parser.rs) and the script blocks   *)
(* of a document (sfc.rs, utils.rs).                                        *)
(* A script is the record of its import aliases, its interface declarations *)
(* and its calls; a call has the name it calls and its string-literal       *)
(* arguments, each with the range of its node                               *)

Literal(value, range) == [value |-> value, range |-> range]
CallExpression(func, args) == [func |-> func, args |-> args]
Script(aliases, interfaces, calls) ==
    [aliases |-> aliases, interfaces |-> interfaces, calls |-> calls]

(* utils::adjust_position and utils::adjust_range *)
AdjustPosition(pos, line_offset) == Pos(pos.line + line_offset, pos.character)
AdjustRange(range, line_offset) ==
    Rng(AdjustPosition(range.start, line_offset), AdjustPosition(range.end, line_offset))

(* get_all_frontend_patterns *)
GetAllFrontendPatterns ==
    <<[name |-> "invoke", entity |-> "Command", behavior |-> "Call", arg_position |-> "First"],
      [name |-> "emit", entity |-> "Event", behavior |-> "Emit", arg_position |-> "First"],
      [name |-> "listen", entity |-> "Event", behavior |-> "Listen", arg_position |-> "First"],
      [name |-> "once", entity |-> "Event", behavior |-> "Listen", arg_position |-> "First"],
      [name |-> "emitTo", entity |-> "Event", behavior |-> "Emit", arg_position |-> "Second"]>>

(* the matches the query has for one call: one that captures the called     *)
(* name with the first argument, and one that captures it with the second   *)
(* argument, for the arguments the call has                                 *)
QueryMatches(call) ==
    (IF Len(call.args) >= 1
     THEN <<[func_name |-> Some(call.func), arg_value |-> Some(call.args[1]),
             func_name_second |-> None, arg_value_second |-> None]>>
     ELSE <<>>)
    \o (IF Len(call.args) >= 2
        THEN <<[func_name |-> None, arg_value |-> None,
                func_name_second |-> Some(call.func), arg_value_second |-> Some(call.args[2])]>>
        ELSE <<>>)

(* aliases.get(func_name).map_or(func_name, ..) *)
ResolveAlias(aliases, func_name) ==
    IF func_name \in DOMAIN aliases THEN aliases[func_name] ELSE func_name

(* one of the two tries of the second pass on a match: the pattern of the   *)
(* resolved name and of the argument position, and the finding pushed       *)
PatternFinding(aliases, func_capture, arg_capture, arg_position, line_offset) ==
    IF func_capture = None \/ arg_capture = None THEN <<>>
    ELSE LET original_name == ResolveAlias(aliases, func_capture[1])
             pattern == SelectSeq(GetAllFrontendPatterns, LAMBDA p :
                            p.name = original_name /\ p.arg_position = arg_position)
         IN  IF pattern = <<>> THEN <<>>
             ELSE <<Finding(arg_capture[1].value, pattern[1].entity, pattern[1].behavior,
                            AdjustRange(arg_capture[1].range, line_offset))>>

(* the body of the second pass for one match *)
MatchFindings(aliases, m, line_offset) ==
    PatternFinding(aliases, m.func_name, m.arg_value, "First", line_offset)
    \o PatternFinding(aliases, m.func_name_second, m.arg_value_second, "Second", line_offset)

(* the first pass: the interface declarations *)
InterfaceFindings(interfaces, line_offset) ==
    [i \in 1..Len(interfaces) |->
        [Finding(interfaces[i].name, "Interface", "Definition",
                 AdjustRange(interfaces[i].range, line_offset))
         EXCEPT !.fields = Some(interfaces[i].fields)]]

(* parse_frontend: the findings of a script that parses *)
ParseFrontend(content, line_offset) ==
    LET matches == Flatten([i \in 1..Len(content.calls) |-> QueryMatches(content.calls[i])])
    IN  InterfaceFindings(content.interfaces, line_offset)
        \o Flatten([i \in 1..Len(matches) |-> MatchFindings(content.aliases, matches[i], line_offset)])

(* A document as text: the sequence of its tokens, each one column wide.    *)
(* The token "\n" ends a line; "<script", ">" and "</script>" are the       *)
(* pieces of the tags; every other token is a call invoke('token') whose    *)
(* string literal is the token.                                             *)
Newlines(text) == Cardinality({i \in 1..Len(text) : text[i] = "\n"})

(* the row and the column tree-sitter gives the token at index i *)
PointOf(text, i) ==
    LET breaks == {j \in 1..(i - 1) : text[j] = "\n"}
        line_start == IF breaks = {} THEN 0 ELSE CHOOSE j \in breaks : \A k \in breaks : k <= j
    IN  Pos(Cardinality(breaks), i - line_start - 1)

TagTokens == {"<script", ">", "</script>", "\n"}

(* parser.parse and the nodes the query captures, with point_to_position *)
ScriptOf(text) ==
    LET at == SelectSeq([i \in 1..Len(text) |-> i], LAMBDA i : text[i] \notin TagTokens)
    IN  Script(EmptyMap, <<>>,
               [k \in 1..Len(at) |->
                   CallExpression("invoke",
                       <<Literal(text[at[k]],
                                 Rng(PointOf(text, at[k]),
                                     Pos(PointOf(text, at[k]).line,
                                         PointOf(text, at[k]).character + 1)))>>)])

(* str::find from an index on: the index of the first occurrence, or None *)
FindFrom(content, from, token) ==
    LET found == {i \in from..Len(content) : content[i] = token}
    IN  IF found = {} THEN None ELSE Some(CHOOSE i \in found : \A j \in found : i <= j)

(* content[..tag_close].lines().count().saturating_sub(1), tag_close being  *)
(* the index of the first token after the opening tag                       *)
LineOffset(content, tag_close) == Newlines(SubSeq(content, 1, tag_close - 1))

(* the loop of extract_script_blocks from search_pos on: tag_close and      *)
(* script_end of every block it pushes                                      *)
RECURSIVE ScriptSpans(_, _)
ScriptSpans(content, search_pos) ==
    LET tag_start == FindFrom(content, search_pos, "<script") IN
    IF tag_start = None THEN <<>>
    ELSE LET tag_close_offset == FindFrom(content, tag_start[1], ">") IN
         IF tag_close_offset = None THEN <<>>
         ELSE LET tag_close == tag_close_offset[1] + 1
                  end_tag_offset == FindFrom(content, tag_close, "</script>")
              IN  IF end_tag_offset = None THEN <<>>
                  ELSE <<[tag_close |-> tag_close, script_end |-> end_tag_offset[1]]>>
                       \o ScriptSpans(content, end_tag_offset[1] + 1)

(* extract_script_blocks: the script content and the line offset of every   *)
(* block                                                                    *)
ExtractScriptBlocks(content) ==
    LET spans == ScriptSpans(content, 1)
    IN  [i \in 1..Len(spans) |->
            [script_content |-> SubSeq(content, spans[i].tag_close, spans[i].script_end - 1),
             line_offset |-> LineOffset(content, spans[i].tag_close)]]

(* tree_parser::parse for the extensions of the frontend *)
Parse(ext, content) ==
    IF ext \in {"ts", "tsx", "js", "jsx"} THEN ParseFrontend(ScriptOf(content), 0)
    ELSE IF ext \in {"vue", "svelte"}
    THEN LET blocks == ExtractScriptBlocks(content)
         IN  Flatten([i \in 1..Len(blocks) |->
                 ParseFrontend(ScriptOf(blocks[i].script_content), blocks[i].line_offset)])
    ELSE <<>>

----------------------------------------------------------------------------
(* indexer/symbols.rs: document and workspace symbols. Where a query is     *)
(* matched against the names, a name is the sequence of its characters      *)

(* let kind = match key.entity { .. } and let behavior_label = match .. *)
SymbolKindOf(entity) ==
    CASE entity = "Command" -> "FUNCTION" [] entity = "Event" -> "EVENT"
      [] entity = "Struct" -> "STRUCT" [] entity = "Enum" -> "ENUM"
      [] entity = "Interface" -> "INTERFACE"

BehaviorLabel(behavior) ==
    CASE behavior = "Definition" -> "command" [] behavior = "Call" -> "invoke"
      [] behavior = "Emit" -> "emit" [] behavior = "Listen" -> "listen"

(* Uri::from_file_path: the paths of the index are absolute, each has a uri *)
UriFromFilePath(path) == Some(path)

(* the SymbolInformation pushed for a location of a key *)
SymbolInformation(key, loc, uri) ==
    [name |-> [name |-> key.name, label |-> BehaviorLabel(loc.behavior)],
     kind |-> SymbolKindOf(key.entity),
     location |-> [uri |-> uri, range |-> loc.range],
     container_name |-> key.entity]

(* the symbols of the locations of one key, those of one file or of all     *)
SymbolsOfKey(m, key, paths) ==
    IF key \notin DOMAIN m THEN <<>>
    ELSE LET locs == SelectSeq(m[key], LAMBDA l :
                         l.path \in paths /\ UriFromFilePath(l.path) # None)
         IN  [i \in 1..Len(locs) |->
                 SymbolInformation(key, locs[i], UriFromFilePath(locs[i].path)[1])]

(* symbols.sort_by_key(|s| s.location.range.start.line): a stable sort *)
InsertByLine(sorted, x) ==
    LET k == Cardinality({i \in 1..Len(sorted) :
                             sorted[i].location.range.start.line <= x.location.range.start.line})
    IN  SubSeq(sorted, 1, k) \o <<x>> \o SubSeq(sorted, k + 1, Len(sorted))

RECURSIVE SortByLine(_)
SortByLine(s) ==
    IF s = <<>> THEN <<>>
    ELSE InsertByLine(SortByLine(SubSeq(s, 1, Len(s) - 1)), s[Len(s)])

(* get_document_symbols: the loop runs over the keys of the file with their *)
(* repeats                                                                  *)
GetDocumentSymbols(path, fm, m) ==
    IF path \notin DOMAIN fm \/ UriFromFilePath(path) = None THEN <<>>
    ELSE SortByLine(Flatten([i \in 1..Len(fm[path]) |-> SymbolsOfKey(m, fm[path][i], {path})]))

(* char::to_lowercase on the letters of the model, and str::to_lowercase *)
ToLowercaseChar(c) ==
    CASE c = "A" -> "a" [] c = "G" -> "g" [] c = "O" -> "o" [] OTHER -> c

ToLowercase(s) == [i \in 1..Len(s) |-> ToLowercaseChar(s[i])]

(* str::contains *)
StrContains(s, pattern) ==
    \E i \in 1..(Len(s) + 1) :
        i + Len(pattern) - 1 <= Len(s) /\ SubSeq(s, i, i + Len(pattern) - 1) = pattern

(* the number of symbols search_workspace_symbols returns at most *)
SymbolLimit == 100

(* a truncate that keeps everything *)
TruncateNothing(symbols, len) == symbols

(* Vec::truncate *)
Truncate(symbols, len) == IF Len(symbols) > len THEN SubSeq(symbols, 1, len) ELSE symbols

(* the keys search_workspace_symbols does not skip *)
MatchingKeys(query, m) ==
    {key \in DOMAIN m : query = <<>> \/ StrContains(ToLowercase(key.name), ToLowercase(query))}

(* search_workspace_symbols: the order in which a DashMap yields its        *)
(* entries is unspecified, the results are those of every order             *)
SearchWorkspaceSymbols(query, m) ==
    LET keys == MatchingKeys(query, m)
        orders == {o \in [1..Cardinality(keys) -> keys] :
                      \A i, j \in 1..Cardinality(keys) : i # j => o[i] # o[j]}
    IN  {Truncate(Flatten([i \in 1..Len(o) |-> SymbolsOfKey(m, o[i], {l.path : l \in SeqRange(m[o[i]])})]),
                  SymbolLimit) : o \in orders}

----------------------------------------------------------------------------
(* capabilities/completion.rs: lsp_character_to_byte_index. A line is the   *)
(* sequence of its chars, a char the lengths of its two encodings           *)

Char(len_utf8, len_utf16) == [len_utf8 |-> len_utf8, len_utf16 |-> len_utf16]

(* a count that takes every char for one unit *)
LenUtf16AsOne(c) == 1

(* char::len_utf16 and char::len_utf8 *)
LenUtf16(c) == c.len_utf16

LenUtf8(c) == c.len_utf8

(* str::len: the bytes of the line *)
RECURSIVE StrLen(_)
StrLen(line) == IF line = <<>> THEN 0 ELSE LenUtf8(Head(line)) + StrLen(Tail(line))

(* for (i, c) in line.char_indices() { .. } from the k-th char on, and the  *)
(* code after the loop; i is the byte_index the char before has left        *)
RECURSIVE CharIndicesLoop(_, _, _, _, _)
CharIndicesLoop(line, character, k, char_count, byte_index) ==
    IF k > Len(line)
    THEN IF char_count <= character THEN byte_index ELSE StrLen(line)
    ELSE IF char_count = character THEN byte_index
    ELSE CharIndicesLoop(line, character, k + 1, char_count + LenUtf16(line[k]),
                         byte_index + LenUtf8(line[k]))

LspCharacterToByteIndex(line, character) == CharIndicesLoop(line, character, 1, 0, 0)

----------------------------------------------------------------------------
(* Backend::initialized (main.rs) and spawn_background_indexing             *)
(* (initialization.rs): the scan of the workspace. The task is kept in      *)
(* tasks; files is what scan_workspace_files returned, each path with the   *)
(* result of its parse; copy names the process_file_index that is called    *)

ScanTask(files, copy) ==
    [pc |-> "processing", files |-> files, copy |-> copy, next |-> 1, published |-> <<>>]

(* tokio::spawn(async move { .. }) *)
StartScan(files, copy) ==
    /\ tasks = <<>>
    /\ tasks' = <<ScanTask(files, copy)>>
    /\ UNCHANGED <<debounce_tasks, handlers>>
    /\ UnchangedHandlerFrame

(* a loop that ends after its first file *)
ScanFirstProcessed(task) == task.next > 1

(* for path in files { .. } has run through files *)
ScanAllProcessed(task) == task.next > Len(task.files)

(* process_file_index(path, &project_index) for the next of the files *)
ScanProcessFile(id) ==
    LET task == tasks[id]
        file == task.files[task.next]
    IN  /\ task.pc = "processing"
        /\ ~ScanAllProcessed(task)
        /\ IF task.copy = "main.rs"
           THEN BackendProcessFileContent(file.path, file.parsed)
           ELSE ProcessFileContent(file.path, file.parsed)
        /\ tasks' = [tasks EXCEPT ![id].next = task.next + 1]
        /\ UNCHANGED <<debounce_tasks, handlers, last>>

(* the loop has ended: the types file is written (initialization.rs) and    *)
(* the publishing begins                                                    *)
ScanBeginPublish(id) ==
    LET task == tasks[id] IN
    /\ task.pc = "processing"
    /\ ScanAllProcessed(task)
    /\ tasks' = [tasks EXCEPT ![id].pc = "publishing"]
    /\ UNCHANGED <<debounce_tasks, handlers>>
    /\ UnchangedHandlerFrame

(* for entry in file_map.iter(): compute_file_diagnostics(&path, ..) and    *)
(* client.publish_diagnostics(uri, diagnostics, None).await, for the        *)
(* entries in the order the map yields them                                 *)
ScanPublish(id, path) ==
    LET task == tasks[id] IN
    /\ task.pc = "publishing"
    /\ path \in DOMAIN file_map
    /\ \A i \in 1..Len(task.published) : task.published[i].path # path
    /\ UriFromFilePath(path) # None
    /\ tasks' = [tasks EXCEPT ![id].published =
          Append(task.published, [path |-> path, diagnostics |-> FileDiagnosticsResult(path)])]
    /\ diagnostic_info_cache' =
          IF GetParseError(parse_errors, path) # None
          THEN diagnostic_info_cache
          ELSE [key \in DOMAIN diagnostic_info_cache \cup SeqRange(file_map[path]) |->
                   DiagnosticInfoResult(key)]
    /\ UNCHANGED <<map, file_map, parse_errors, command_names_cache, event_names_cache,
                   lens_data_cache, position_index_cache, reference_limit, last, threads,
                   debounce_tasks, handlers>>

(* every entry is published: the report is logged and the task ends *)
ScanFinish(id) ==
    LET task == tasks[id] IN
    /\ task.pc = "publishing"
    /\ \A path \in DOMAIN file_map : \E i \in 1..Len(task.published) : task.published[i].path = path
    /\ tasks' = [tasks EXCEPT ![id].pc = "done"]
    /\ UNCHANGED <<debounce_tasks, handlers>>
    /\ UnchangedHandlerFrame

----------------------------------------------------------------------------
(* ProjectIndex::default *)
Init ==
    /\ map = EmptyMap
    /\ file_map = EmptyMap
    /\ parse_errors = EmptyMap
    /\ command_names_cache = None
    /\ event_names_cache = None
    /\ diagnostic_info_cache = EmptyMap
    /\ lens_data_cache = EmptyMap
    /\ position_index_cache = EmptyMap
    /\ reference_limit = 3
    /\ last = Call("new", "", <<>>, {})
    /\ threads = [t \in Threads |-> IdleThread]
    /\ debounce_tasks = EmptyMap
    /\ tasks = <<>>
    /\ handlers = [h \in Handlers |-> IdleHandler]

----------------------------------------------------------------------------
(* The index driven one call at a time, on a backend and a frontend file *)

Paths == {"lib.rs", "app.ts"}
Names == {"f", "g"}
R1 == Rng(Pos(0, 0), Pos(0, 1))
R2 == Rng(Pos(1, 0), Pos(1, 1))

(* a command that is defined and called, and an event of the same name *)
IndexFindings ==
    {Finding("f", "Command", "Definition", R1), Finding("f", "Command", "Call", R2),
     Finding("f", "Event", "Emit", R1)}

SeqsUpTo(S, n) == UNION {[1..k -> S] : k \in 0..n}

IndexContents == SeqsUpTo(IndexFindings, MaxFindings)

Next ==
    \/ \E path \in Paths, findings \in IndexContents :
          AddFile(path, findings) /\ Recorded("add_file", path, findings)
    \/ \E path \in Paths : RemoveFile(path) /\ Recorded("remove_file", path, <<>>)

Spec == Init /\ [][Next]_vars

----------------------------------------------------------------------------
(* The index and its aggregate caches, one call at a time *)

CacheFindings ==
    {Finding("f", "Command", "Definition", R1), Finding("f", "Command", "Call", R2),
     Finding("g", "Event", "Emit", R1)}

CacheContents == SeqsUpTo(CacheFindings, MaxFindings)

(* the keys asked for: one of a command, one of an event *)
QueryKeys == {IndexKey("Command", "f"), IndexKey("Event", "g")}

NextCache ==
    \/ \E path \in Paths, findings \in CacheContents :
          AddFile(path, findings) /\ Unrecorded
    \/ \E path \in Paths : RemoveFile(path) /\ Unrecorded
    \/ \E key \in QueryKeys : GetDiagnosticInfo(key)
    \/ \E entity \in EntityType : GetAllNames(entity)

SpecCache == Init /\ [][NextCache]_vars

----------------------------------------------------------------------------
(* The index and its lens cache, one call at a time *)

NextLens ==
    \/ \E path \in Paths, findings \in CacheContents :
          AddFile(path, findings) /\ Unrecorded
    \/ \E path \in Paths : RemoveFile(path) /\ Unrecorded
    \/ \E path \in Paths : GetLensData(path)

SpecLens == Init /\ [][NextLens]_vars

----------------------------------------------------------------------------
(* Position lookup in one indexed file: the file's findings are drawn when  *)
(* the file is indexed, their ranges placed anywhere on a small grid        *)

Positions == {Pos(l, c) : l \in 0..MaxLine, c \in 0..MaxChar}
PosRanges == {r \in {Rng(s, e) : s, e \in Positions} : PosLT(r.start, r.end)}
PosFindings == {Finding(n, "Command", "Call", r) : n \in Names, r \in PosRanges}
PosContents == SeqsUpTo(PosFindings, MaxFindings)

(* a file is indexed into a new index, once *)
IndexOnce(path, findings) ==
    file_map = EmptyMap /\ AddFile(path, findings) /\ Recorded("add_file", path, findings)

NextPos ==
    \/ \E findings \in PosContents : IndexOnce("lib.rs", findings)
    \/ \E pos \in Positions : GetKeyAtPosition("lib.rs", pos)

SpecPos == Init /\ [][NextPos]_vars

(* The index and its position cache, one call at a time: a command whose    *)
(* range spans the lines of a call inside it, and an event                  *)

PosCacheFindings ==
    {Finding("f", "Command", "Definition", Rng(Pos(0, 0), Pos(2, 0))),
     Finding("f", "Command", "Call", Rng(Pos(1, 0), Pos(1, 1))),
     Finding("g", "Event", "Emit", R1)}

PosCacheContents == SeqsUpTo(PosCacheFindings, MaxFindings)

NextPosCache ==
    \/ \E path \in Paths, findings \in PosCacheContents :
          AddFile(path, findings) /\ Unrecorded
    \/ \E path \in Paths : RemoveFile(path) /\ Unrecorded
    \/ \E path \in Paths, pos \in Positions : GetKeyAtPosition(path, pos)

SpecPosCache == Init /\ [][NextPosCache]_vars

----------------------------------------------------------------------------
(* One file of the shared index: it is indexed once, then each thread makes *)
(* one call on it                                                           *)

SharedFindings ==
    {Finding("f", "Command", "Definition", R1), Finding("g", "Event", "Emit", R2)}

SharedContents == SeqsUpTo(SharedFindings, MaxFindings)

AllIdle == \A t \in Threads : threads[t].pc = "idle"

NextShared ==
    \/ \E findings \in SharedContents : AllIdle /\ IndexOnce("lib.rs", findings)
    \/ \E t \in Threads, findings \in SharedContents : StartAddFile(t, "lib.rs", findings)
    \/ \E t \in Threads : StartRemoveFile(t, "lib.rs")
    \/ \E t \in Threads, key \in QueryKeys : CallGetLocations(t, key)
    \/ \E t \in Threads : StepFileMapRemove(t)
    \/ \E t \in Threads : StepRetain(t)
    \/ \E t \in Threads : StepCheckEmpty(t)
    \/ \E t \in Threads : StepPrune(t)
    \/ \E t \in Threads : StepInvalidateRemoved(t)
    \/ \E t \in Threads : StepParseErrorsRemove(t)
    \/ \E t \in Threads : StepPush(t)
    \/ \E t \in Threads : StepInvalidateAdded(t)
    \/ \E t \in Threads : StepFileMapInsert(t)

SpecShared == Init /\ [][NextShared]_vars

----------------------------------------------------------------------------
(* Files processed one at a time: a backend file, a frontend file and a     *)
(* file of no supported extension; each parse succeeds or fails             *)

ProcessPaths == Paths \cup {"notes.md"}

ProcessFindings ==
    {Finding("f", "Command", "Definition", R1), Finding("f", "Command", "Call", R2)}

ProcessContents == SeqsUpTo(ProcessFindings, MaxFindings)

ParseResults == {Ok(findings) : findings \in ProcessContents} \cup {Err("syntax error")}

ProcessCall(parsed) ==
    IF parsed.ok THEN "process_file_content" ELSE "process_file_content failed"

(* what is tried on the file of no supported extension *)
UnsupportedResults ==
    {Ok(<<f>>) : f \in ProcessFindings} \cup {Err("syntax error")}

NextProcess ==
    \/ \E path \in Paths, parsed \in ParseResults :
          ProcessFileContent(path, parsed) /\ Recorded(ProcessCall(parsed), path, parsed.findings)
    \/ \E parsed \in UnsupportedResults :
          /\ ProcessFileContent("notes.md", parsed)
          /\ Recorded(ProcessCall(parsed), "notes.md", parsed.findings)
    \/ \E path \in Paths : RemoveFile(path) /\ Recorded("remove_file", path, <<>>)
    \/ \E path \in Paths :
          SetParseError(path, "read error") /\ Recorded("set_parse_error", path, <<>>)

SpecProcess == Init /\ [][NextProcess]_vars

----------------------------------------------------------------------------
(* Edits of two files that share a command and an event; an edit leaves a   *)
(* file with one finding, or with content that does not parse               *)

EditContents ==
    {Ok(<<Finding("f", "Command", "Definition", R1)>>),
     Ok(<<Finding("g", "Event", "Emit", R2)>>),
     Err("syntax error")}

HandlersIdle == \A h \in Handlers : handlers[h].pc = "idle"

TaskIds == 1..Len(tasks)

(* the notifications are handled one after the other *)
NextDebounce ==
    \/ \E path \in Paths, content \in EditContents :
          HandlersIdle /\ StartDidChange("h1", path, content)
    \/ StepTasksRemove("h1")
    \/ StepAbort("h1")
    \/ StepSpawn("h1")
    \/ StepTasksInsert("h1")
    \/ \E id \in TaskIds : TaskRun(id)
    \/ \E id \in TaskIds, file \in Paths : TaskPublish(id, file)

SpecDebounce == Init /\ [][NextDebounce]_vars

(* two notifications for one file may be handled at the same time *)
NextChange ==
    \/ \E h \in Handlers, content \in EditContents : StartDidChange(h, "lib.rs", content)
    \/ \E h \in Handlers : StepTasksRemove(h)
    \/ \E h \in Handlers : StepAbort(h)
    \/ \E h \in Handlers : StepSpawn(h)
    \/ \E h \in Handlers : StepTasksInsert(h)
    \/ \E id \in TaskIds : TaskRun(id)
    \/ \E id \in TaskIds, file \in Paths : TaskPublish(id, file)

SpecChange == Init /\ [][NextChange]_vars

----------------------------------------------------------------------------
(* Navigation between a backend and a frontend file: a command f and an     *)
(* event f, occurrences that share a range included                         *)

GotoFindings(path) ==
    IF path = "lib.rs"
    THEN {Finding("f", "Command", "Definition", R1), Finding("f", "Command", "Call", R1),
          Finding("f", "Event", "Listen", R2)}
    ELSE {Finding("f", "Command", "Call", R2), Finding("f", "Command", "Definition", R2),
          Finding("f", "Event", "Emit", R1)}

GotoPositions == {Pos(0, 0), Pos(1, 0), Pos(2, 0)}

NextGoto ==
    \/ \E path \in Paths : \E findings \in SeqsUpTo(GotoFindings(path), MaxFindings) :
          AddFile(path, findings) /\ Unrecorded
    \/ \E path \in Paths : RemoveFile(path) /\ Unrecorded
    \/ \E path \in Paths, position \in GotoPositions : GotoDefinition(path, position)

SpecGoto == Init /\ [][NextGoto]_vars

----------------------------------------------------------------------------
(* Diagnostics of a backend and a frontend file: a command f called up to   *)
(* twice, an event g emitted up to twice, their definition and listener     *)

DiagFindings(path) ==
    IF path = "lib.rs"
    THEN {Finding("f", "Command", "Definition", R1), Finding("g", "Event", "Listen", R2)}
    ELSE {Finding("f", "Command", "Call", R1), Finding("f", "Command", "Call", R2),
          Finding("g", "Event", "Emit", R1), Finding("g", "Event", "Emit", R2)}

NextDiag ==
    \/ \E path \in Paths : \E findings \in SeqsUpTo(DiagFindings(path), MaxFindings) :
          AddFile(path, findings) /\ Unrecorded
    \/ \E path \in Paths : RemoveFile(path) /\ Unrecorded
    \/ \E path \in Paths : ComputeFileDiagnostics(path)

SpecDiag == Init /\ [][NextDiag]_vars

(* A command f(a) whose parameter is a String or a custom type, called with *)
(* a string literal, an object literal or a variable                        *)

Signed(finding, type_name) ==
    [finding EXCEPT !.parameters = Some(<<Parameter(<<"a">>, type_name)>>)]

TypedFindings(path) ==
    IF path = "lib.rs"
    THEN {Signed(Finding("f", "Command", "Definition", R1), <<"String">>),
          Signed(Finding("f", "Command", "Definition", R1), <<"Config">>)}
    ELSE {Signed(Finding("f", "Command", "Call", R1), <<"string">>),
          Signed(Finding("f", "Command", "Call", R2), <<"object">>),
          Signed(Finding("f", "Command", "Call", R2), <<"any">>)}

NextTypes ==
    \/ \E path \in Paths : \E findings \in SeqsUpTo(TypedFindings(path), MaxFindings) :
          AddFile(path, findings) /\ Unrecorded
    \/ \E path \in Paths : RemoveFile(path) /\ Unrecorded
    \/ \E path \in Paths : ComputeFileDiagnostics(path)

SpecTypes == Init /\ [][NextTypes]_vars

(* A command f that returns the struct S{id: u32, a_b: String}, with or     *)
(* without the renaming attribute, called with the expected type T, an      *)
(* interface that types.ts declares                                         *)

FieldPaths == {"lib.rs", "app.ts", "types.ts"}

WithFields(finding, fields, attributes) ==
    [finding EXCEPT !.fields = Some(fields), !.attributes = attributes]

Returning(finding, return_type) == [finding EXCEPT !.return_type = Some(return_type)]

FieldFindings(path) ==
    IF path = "lib.rs"
    THEN {WithFields(Finding("S", "Struct", "Definition", R1),
                     <<Parameter(<<"i", "d">>, <<"u32">>), Parameter(<<"a", "_", "b">>, <<"String">>)>>,
                     attributes) :
             attributes \in {None, Some(<<<<"serde", "rename_all", "camelCase">>>>)}}
         \cup {Returning(Finding("f", "Command", "Definition", R2), <<"S">>)}
    ELSE IF path = "types.ts"
    THEN {WithFields(Finding("T", "Interface", "Definition", R1),
                     <<Parameter(<<"i", "d">>, <<"number">>), Parameter(name, type_name)>>, None) :
             name \in {<<"a", "_", "b">>, <<"a", "B">>}, type_name \in {<<"number">>, <<"string">>}}
    ELSE {Returning(Finding("f", "Command", "Call", range), <<"<", "T", ">">>) : range \in {R1, R2}}

NextFields ==
    \/ \E path \in FieldPaths : \E findings \in SeqsUpTo(FieldFindings(path), MaxFindings) :
          AddFile(path, findings) /\ Unrecorded
    \/ \E path \in FieldPaths : RemoveFile(path) /\ Unrecorded
    \/ \E path \in FieldPaths : ComputeFileDiagnostics(path)

SpecFields == Init /\ [][NextFields]_vars

(* A command f whose parameters are a_b: String, or a: String with an       *)
(* optional b, or a of the custom type WindowConfig, called with an object  *)
(* literal that names none, some or other arguments                         *)

ArgsOf(finding, parameters) == [finding EXCEPT !.parameters = Some(parameters)]

ArgFindings(path) ==
    IF path = "lib.rs"
    THEN {ArgsOf(Finding("f", "Command", "Definition", R1), parameters) :
             parameters \in {<<Parameter(<<"a", "_", "b">>, <<"String">>)>>,
                             <<Parameter(<<"a">>, <<"String">>),
                               Parameter(<<"b">>, <<"Option<", "String", ">">>)>>,
                             <<Parameter(<<"a">>, <<"WindowConfig">>)>>}}
    ELSE {ArgsOf(Finding("f", "Command", "Call", range), parameters) :
             range \in {R1, R2},
             parameters \in {<<>>,
                             <<Parameter(<<"a", "B">>, <<"any">>)>>,
                             <<Parameter(<<"a", "_", "b">>, <<"any">>)>>,
                             <<Parameter(<<"a">>, <<"any">>), Parameter(<<"i">>, <<"any">>)>>}}

NextArgs ==
    \/ \E path \in Paths : \E findings \in SeqsUpTo(ArgFindings(path), MaxFindings) :
          AddFile(path, findings) /\ Unrecorded
    \/ \E path \in Paths : RemoveFile(path) /\ Unrecorded
    \/ \E path \in Paths : ComputeFileDiagnostics(path)

SpecArgs == Init /\ [][NextArgs]_vars

(* A frontend file of one or two calls among emitTo("win", "progress"),     *)
(* the same under an import alias, emit("progress") and listen("progress"), *)
(* and a backend file that may listen                                       *)

EmitCalls ==
    {CallExpression(func, <<Literal("win", Rng(Pos(l, 0), Pos(l, 1))),
                            Literal("progress", Rng(Pos(l, 2), Pos(l, 3)))>>) :
        func \in {"emitTo", "send"}, l \in {0, 1}}
    \cup {CallExpression(func, <<Literal("progress", Rng(Pos(2, 0), Pos(2, 1)))>>) :
             func \in {"emit", "listen"}}

(* the calls of a script follow one another, one on a line *)
EmitScripts ==
    {Script([local \in {"send"} |-> "emitTo"], <<>>, calls) :
        calls \in {c \in SeqsUpTo(EmitCalls, MaxFindings) \ {<<>>} :
                      \A i, j \in 1..Len(c) :
                          i < j => c[i].args[1].range.start.line < c[j].args[1].range.start.line}}

EmitBackendFindings ==
    {Finding("progress", "Event", "Listen", R1), Finding("win", "Event", "Listen", R2)}

NextEmit ==
    \/ \E content \in EmitScripts :
          /\ ProcessFileContent("app.ts", Ok(ParseFrontend(content, 0)))
          /\ Recorded("process_file_content", "app.ts", ParseFrontend(content, 0))
    \/ \E findings \in SeqsUpTo(EmitBackendFindings, MaxFindings) :
          AddFile("lib.rs", findings) /\ Recorded("add_file", "lib.rs", findings)
    \/ \E path \in Paths : RemoveFile(path) /\ Recorded("remove_file", path, <<>>)
    \/ \E path \in Paths : ComputeFileDiagnostics(path)

SpecEmit == Init /\ [][NextEmit]_vars

(* Two backend and two frontend files that each emit or listen to the event *)
(* g once, under a reference limit of 1 or of 3                             *)

LensPaths == {"lib.rs", "cmd.rs", "app.ts", "main.ts"}

LensFindings(path) ==
    {Finding("g", "Event", IF path \in {"cmd.rs", "app.ts"} THEN "Emit" ELSE "Listen", R1)}

ReferenceLimits == {1, 3}

NextGroups ==
    \/ \E path \in LensPaths : \E f \in LensFindings(path) :
          AddFile(path, <<f>>) /\ Unrecorded
    \/ \E path \in LensPaths : RemoveFile(path) /\ Unrecorded
    \/ \E path \in LensPaths : GetLensData(path)
    \/ \E limit \in ReferenceLimits : LoadConfiguration(limit)

SpecGroups == Init /\ [][NextGroups]_vars

(* add_file called again with the file index of the call before it; the     *)
(* queries run in between and fill their caches                             *)

IdemFindings ==
    {Finding(<<"g", "o">>, "Command", "Call", R1),
     Finding(<<"g", "o">>, "Event", "Emit", R2)}

IdemKeys == {IndexKey("Command", <<"g", "o">>), IndexKey("Event", <<"g", "o">>)}

IdemQueries == {<<>>, <<"G">>}

IdemPositions == {Pos(0, 0), Pos(1, 0)}

(* what every query of the index returns *)
QueryView ==
    [get_locations |-> [key \in IdemKeys |-> GetLocations(map, key.entity, key.name)],
     get_key_at_position |->
        [x \in Paths \X IdemPositions |-> KeyAtPositionResult(x[1], x[2])],
     get_diagnostic_info |-> [key \in IdemKeys |-> DiagnosticInfoResult(key)],
     get_all_names |-> [entity \in EntityType |-> AllNamesResult(entity)],
     get_lens_data |-> [path \in Paths |-> LensDataResult(path)],
     document_symbols |-> [path \in Paths |-> GetDocumentSymbols(path, file_map, map)],
     workspace_symbols |-> [query \in IdemQueries |-> SearchWorkspaceSymbols(query, map)]]

(* the second of two add_file calls with the same file index is kept in     *)
(* last with what the queries returned before it                            *)
RecordedAgain ==
    /\ last' = [op |-> "add_file again", path |-> last.path, findings |-> last.findings,
                purged |-> SeqRange(RemovedKeys(file_map, last.path)), before |-> QueryView]
    /\ UNCHANGED server

NextIdem ==
    \/ \E path \in Paths : \E findings \in SeqsUpTo(IdemFindings, MaxFindings) :
          AddFile(path, findings) /\ Recorded("add_file", path, findings)
    \/ /\ last.op = "add_file"
       /\ AddFile(last.path, last.findings)
       /\ RecordedAgain
    \/ \E path \in Paths : RemoveFile(path) /\ Recorded("remove_file", path, <<>>)
    \/ \E path \in Paths : GetLensData(path)
    \/ GetKeyAtPosition("app.ts", Pos(0, 0))

SpecIdem == Init /\ [][NextIdem]_vars

(* A backend file that defines the command Go, a frontend file that calls   *)
(* it and emits the event ag, and a frontend file that calls the command go *)
(* one time less or one time more than the limit of the search; the         *)
(* queries are in either case, and one matches nothing                      *)

ManyCalls(n) ==
    [i \in 1..n |-> Finding(<<"g", "o">>, "Command", "Call", Rng(Pos(i, 0), Pos(i, 1)))]

SymbolContents(path) ==
    IF path = "lib.rs" THEN {<<Finding(<<"G", "o">>, "Command", "Definition", R1)>>}
    ELSE IF path = "app.ts"
    THEN {<<Finding(<<"a", "g">>, "Event", "Emit", R1)>>,
          <<Finding(<<"G", "o">>, "Command", "Call", R2), Finding(<<"a", "g">>, "Event", "Emit", R1)>>}
    ELSE {ManyCalls(SymbolLimit - 1), ManyCalls(SymbolLimit + 1)}

SymbolPaths == {"lib.rs", "app.ts", "main.ts"}

SymbolQueries == {<<>>, <<"g">>, <<"G", "O">>, <<"o", "g">>}

(* a search is kept in last with its query and the symbols it returned *)
Search(query) ==
    /\ \E symbols \in SearchWorkspaceSymbols(query, map) :
          last' = [op |-> "search_workspace_symbols", path |-> "", findings |-> symbols,
                   purged |-> {}, query |-> query]
    /\ UNCHANGED <<map, file_map, parse_errors, command_names_cache, event_names_cache,
                   diagnostic_info_cache, lens_data_cache, position_index_cache,
                   reference_limit, server, threads>>

NextSymbols ==
    \/ \E path \in SymbolPaths : \E findings \in SymbolContents(path) :
          AddFile(path, findings) /\ Recorded("add_file", path, <<>>)
    \/ \E path \in SymbolPaths : RemoveFile(path) /\ Recorded("remove_file", path, <<>>)
    \/ \E query \in SymbolQueries : Search(query)

SpecSymbols == Init /\ [][NextSymbols]_vars

(* The type map as a function of its input: types of the backend and of     *)
(* the frontend up to MaxDepth containers around a leaf, each call kept in  *)
(* last with its input and its output                                       *)
MaxDepth == 3

RustIntegerAndFloatTypes ==
    {"u8", "i8", "u16", "i16", "u32", "i32", "u64", "i64", "u128", "i128",
     "usize", "isize", "f32", "f64"}

RustLeaves == {"String", "bool", "u32", "f64", "User"}
TsLeaves == {"string", "number", "boolean", "User"}

VecOf(t) == <<"Vec<">> \o t \o <<">">>
OptionOf(t) == <<"Option<">> \o t \o <<">">>
ArrayOf(t) == t \o <<"[]">>
NullableOf(t) == t \o <<" | null">>

RECURSIVE RustTypes(_)
RustTypes(depth) ==
    IF depth = 0 THEN {<<l>> : l \in RustLeaves \cup RustIntegerAndFloatTypes}
    ELSE LET inner == RustTypes(depth - 1)
         IN  inner \cup {VecOf(t) : t \in inner} \cup {OptionOf(t) : t \in inner}

RECURSIVE TsTypes(_)
TsTypes(depth) ==
    IF depth = 0 THEN {<<l>> : l \in TsLeaves}
    ELSE LET inner == TsTypes(depth - 1)
         IN  inner \cup {ArrayOf(t) : t \in inner} \cup {NullableOf(t) : t \in inner}

Mapped(op, input, output) ==
    /\ last' = [op |-> op, path |-> "", findings |-> <<>>, purged |-> {},
                input |-> input, output |-> output]
    /\ UNCHANGED <<map, file_map, parse_errors, command_names_cache, event_names_cache,
                   diagnostic_info_cache, lens_data_cache, position_index_cache,
                   reference_limit, server, threads>>

NextTypeMap ==
    \/ \E t \in RustTypes(MaxDepth) : Mapped("map_rust_type_to_ts", t, MapRustTypeToTs(t))
    \/ \E t \in TsTypes(MaxDepth) : Mapped("map_ts_type_to_rust", t, MapTsTypeToRust(t))

SpecTypeMap == Init /\ [][NextTypeMap]_vars

(* Documents with embedded scripts: a text grows by one piece at a time, up  *)
(* to MaxPieces pieces, a piece being an opening tag on one line or on two, *)
(* a closing tag, a line break or a call; after every piece the text is     *)
(* parsed as a .vue file or as a .ts file, and the parse is kept in last    *)
(* with the text                                                            *)
MaxPieces == 7

Pieces == {<<"<script", ">">>, <<"<script", "\n", ">">>, <<"</script>">>, <<"\n">>, <<"go">>}

ParseCall(ext, content, pieces) ==
    /\ last' = [op |-> "parse", path |-> ext, findings |-> Parse(ext, content),
                purged |-> {}, content |-> content, pieces |-> pieces]
    /\ UNCHANGED <<map, file_map, parse_errors, command_names_cache, event_names_cache,
                   diagnostic_info_cache, lens_data_cache, position_index_cache,
                   reference_limit, server, threads>>

NextParse ==
    \E ext \in {"vue", "ts"} : \E piece \in Pieces :
        LET typed == IF last.op = "parse" THEN last ELSE [content |-> <<>>, pieces |-> 0]
        IN  /\ typed.pieces < MaxPieces
            /\ ParseCall(ext, typed.content \o piece, typed.pieces + 1)

SpecParse == Init /\ [][NextParse]_vars

(* One name used by two kinds: the command f and the struct f, both         *)
(* defined, on a backend and a frontend file; the range of a finding tells  *)
(* its kind                                                                 *)
KindFindings ==
    {Finding("f", "Command", "Definition", R1), Finding("f", "Struct", "Definition", R2)}

KindContents == SeqsUpTo(KindFindings, MaxFindings)

KindKeys == {IndexKey(e, "f") : e \in {"Command", "Struct"}}

NextKinds ==
    \/ \E path \in Paths, findings \in KindContents :
          AddFile(path, findings) /\ Recorded("add_file", path, findings)
    \/ \E path \in Paths : RemoveFile(path) /\ Recorded("remove_file", path, <<>>)
    \/ \E key \in KindKeys : GetDiagnosticInfo(key)

SpecKinds == Init /\ [][NextKinds]_vars

(* Two threads on the locks of the index: each makes one call, at any time, *)
(* on a file of up to MaxFindings keys, with the caches hit or missed       *)
Flags == {TRUE, FALSE}

LockPrograms ==
    [add_file |-> {AddFileLocks(p, old, prune, n) :
                       p \in Flags, old \in 0..MaxFindings, prune \in Flags, n \in 0..MaxFindings},
     remove_file |-> {RemoveFileLocks(p, n, prune) : p \in Flags, n \in 0..MaxFindings, prune \in Flags},
     get_key_at_position |-> {GetKeyAtPositionLocks(hit, p, n, c) :
                                 hit \in Flags, p \in Flags, n \in 0..MaxFindings, c \in 0..1},
     get_lens_data |-> {GetLensDataLocks(hit, p, n) : hit \in Flags, p \in Flags, n \in 0..MaxFindings},
     get_all_names |-> {GetAllNamesLocks(cache, hit) :
                           cache \in {"command_names", "event_names"}, hit \in Flags},
     get_diagnostic_info |-> {GetDiagnosticInfoLocks(hit) : hit \in Flags},
     get_document_symbols |-> {GetDocumentSymbolsLocks(p, n) : p \in Flags, n \in 0..MaxFindings},
     search_workspace_symbols |-> {SearchWorkspaceSymbolsLocks}]

NextLocks ==
    \/ \E t \in Threads : \E op \in DOMAIN LockPrograms : \E program \in LockPrograms[op] :
          StartCall(t, op, program)
    \/ \E t \in Threads : StepLock(t)

SpecLocks == Init /\ [][NextLocks]_vars

(* a thread that can run its next instruction runs it *)
FairLocks == SpecLocks /\ \A t \in Threads : WF_vars(StepLock(t))

(* Two files that share a key, on the shared index: lib.rs is indexed once, *)
(* then one thread removes or re-indexes lib.rs while the other indexes     *)
(* app.ts                                                                   *)
PruneFindings ==
    {Finding("f", "Command", "Definition", R1), Finding("f", "Command", "Call", R2)}

PruneContents == SeqsUpTo(PruneFindings, MaxFindings)

NextPrune ==
    \/ \E findings \in PruneContents : AllIdle /\ IndexOnce("lib.rs", findings)
    \/ \E findings \in PruneContents : StartAddFile("t1", "lib.rs", findings)
    \/ StartRemoveFile("t1", "lib.rs")
    \/ \E findings \in PruneContents : StartAddFile("t2", "app.ts", findings)
    \/ \E t \in Threads : StepFileMapRemove(t)
    \/ \E t \in Threads : StepRetain(t)
    \/ \E t \in Threads : StepCheckEmpty(t)
    \/ \E t \in Threads : StepPrune(t)
    \/ \E t \in Threads : StepInvalidateRemoved(t)
    \/ \E t \in Threads : StepParseErrorsRemove(t)
    \/ \E t \in Threads : StepPush(t)
    \/ \E t \in Threads : StepInvalidateAdded(t)
    \/ \E t \in Threads : StepFileMapInsert(t)

SpecPrune == Init /\ [][NextPrune]_vars

(* A file re-indexed by one thread while the other looks a position up: a   *)
(* command on line 0 and an event on line 1, whose ranges do not overlap    *)
RaceFindings ==
    {Finding("f", "Command", "Definition", R1), Finding("g", "Event", "Emit", R2)}

RaceContents == SeqsUpTo(RaceFindings, MaxFindings)

NextPosRace ==
    \/ \E findings \in RaceContents : AllIdle /\ IndexOnce("lib.rs", findings)
    \/ \E findings \in RaceContents : StartAddFile("t1", "lib.rs", findings)
    \/ StartGetKeyAtPosition("t2", "lib.rs")
    \/ StepPositionCacheGet("t2")
    \/ StepBuildPositionIndex("t2")
    \/ StepPositionCacheInsert("t2")
    \/ StepFileMapRemove("t1")
    \/ StepRetain("t1")
    \/ StepCheckEmpty("t1")
    \/ StepPrune("t1")
    \/ StepInvalidateRemoved("t1")
    \/ StepParseErrorsRemove("t1")
    \/ StepPush("t1")
    \/ StepInvalidateAdded("t1")
    \/ StepFileMapInsert("t1")

SpecPosRace == Init /\ [][NextPosRace]_vars

(* A file indexed or removed by one thread while the other asks for the     *)
(* diagnostic aggregate of the command f                                    *)
NextDiagRace ==
    \/ \E findings \in RaceContents : AllIdle /\ IndexOnce("lib.rs", findings)
    \/ \E findings \in RaceContents : StartAddFile("t1", "lib.rs", findings)
    \/ StartRemoveFile("t1", "lib.rs")
    \/ StartGetDiagnosticInfo("t2", IndexKey("Command", "f"))
    \/ StepDiagnosticCacheGet("t2")
    \/ StepComputeDiagnosticInfo("t2")
    \/ StepDiagnosticCacheInsert("t2")
    \/ StepFileMapRemove("t1")
    \/ StepRetain("t1")
    \/ StepCheckEmpty("t1")
    \/ StepPrune("t1")
    \/ StepInvalidateRemoved("t1")
    \/ StepParseErrorsRemove("t1")
    \/ StepPush("t1")
    \/ StepInvalidateAdded("t1")
    \/ StepFileMapInsert("t1")

SpecDiagRace == Init /\ [][NextDiagRace]_vars

(* A command f that lib.rs defines and that returns the struct S of         *)
(* models.rs, called by app.ts with the expected type T, an interface that  *)
(* types.ts declares; the files are indexed by the scan and edited after it *)

RepublishPaths == {"lib.rs", "models.rs", "types.ts", "app.ts"}

RepublishFindings(path) ==
    IF path = "lib.rs"
    THEN {Returning(Finding("f", "Command", "Definition", R1), <<"S">>)}
    ELSE IF path = "models.rs"
    THEN {WithFields(Finding("S", "Struct", "Definition", R1),
                     <<Parameter(<<"i", "d">>, type_name)>>, None) :
             type_name \in {<<"u32">>, <<"String">>}}
    ELSE IF path = "types.ts"
    THEN {WithFields(Finding("T", "Interface", "Definition", R1),
                     <<Parameter(<<"i", "d">>, type_name)>>, None) :
             type_name \in {<<"number">>, <<"string">>}}
    ELSE {Returning(Finding("f", "Command", "Call", R2), <<"<", "T", ">">>)}

RepublishContents(path) == {<<finding>> : finding \in RepublishFindings(path)}

(* the files that are edited: the one with the struct, the one with the     *)
(* interface                                                                *)
EditedPaths == {"models.rs", "types.ts"}

NextRepublish ==
    \/ \E path \in RepublishPaths : \E findings \in RepublishContents(path) :
          tasks = <<>> /\ HandlersIdle /\ AddFile(path, findings) /\ Unrecorded
    \/ \E path \in EditedPaths : \E findings \in RepublishContents(path) \cup {<<>>} :
          HandlersIdle /\ StartDidChange("h1", path, Ok(findings))
    \/ StepTasksRemove("h1")
    \/ StepAbort("h1")
    \/ StepSpawn("h1")
    \/ StepTasksInsert("h1")
    \/ \E id \in TaskIds : TaskRun(id)
    \/ \E id \in TaskIds, file \in RepublishPaths : TaskPublish(id, file)

SpecRepublish == Init /\ [][NextRepublish]_vars

(* Files processed one at a time by either copy of process_file_content,    *)
(* that of file_processor.rs or that of main.rs; each parse succeeds or     *)
(* fails                                                                    *)
NextParseError ==
    \/ \E path \in Paths, parsed \in ParseResults :
          ProcessFileContent(path, parsed) /\ Recorded(ProcessCall(parsed), path, parsed.findings)
    \/ \E path \in Paths, parsed \in ParseResults :
          /\ BackendProcessFileContent(path, parsed)
          /\ Recorded(ProcessCall(parsed), path, parsed.findings)
    \/ \E path \in Paths : RemoveFile(path) /\ Recorded("remove_file", path, <<>>)

SpecParseError == Init /\ [][NextParseError]_vars

(* the same with the copy of file_processor.rs alone *)
NextLibraryParseError ==
    \/ \E path \in Paths, parsed \in ParseResults :
          ProcessFileContent(path, parsed) /\ Recorded(ProcessCall(parsed), path, parsed.findings)
    \/ \E path \in Paths : RemoveFile(path) /\ Recorded("remove_file", path, <<>>)

SpecLibraryParseError == Init /\ [][NextLibraryParseError]_vars

(* The scan of a workspace of a backend and a frontend file, found in       *)
(* either order, each with content that parses or not                       *)
ScannedFile(path, parsed) == [path |-> path, parsed |-> parsed]

ScanResults(path) ==
    {Ok(findings) : findings \in SeqsUpTo(DiagFindings(path), MaxFindings)}
        \cup {Err("syntax error")}

ScanInputs ==
    {files \in UNION {{<<ScannedFile(first, p), ScannedFile(second, q)>> :
                          p \in ScanResults(first), q \in ScanResults(second)} :
                      first \in Paths, second \in Paths} :
        files[1].path # files[2].path}

NextScan ==
    \/ \E files \in ScanInputs, copy \in {"main.rs", "file_processor.rs"} : StartScan(files, copy)
    \/ \E id \in TaskIds : ScanProcessFile(id)
    \/ \E id \in TaskIds : ScanBeginPublish(id)
    \/ \E id \in TaskIds, path \in Paths : ScanPublish(id, path)
    \/ \E id \in TaskIds : ScanFinish(id)

SpecScan == Init /\ [][NextScan]_vars

(* The conversion as a function of its input: lines of up to MaxLineChars   *)
(* chars of one to four bytes, the last kind a surrogate pair, and offsets  *)
(* up to one past the longest line; a line grows by one char, the offset    *)
(* moves, and each call is kept in last with its output                     *)
MaxLineChars == 3

Chars == {Char(1, 1), Char(2, 1), Char(3, 1), Char(4, 2)}

Characters == 0..(2 * MaxLineChars + 1)

Converted(line, character) ==
    /\ last' = [op |-> "lsp_character_to_byte_index", path |-> "", findings |-> <<>>,
                purged |-> {}, line |-> line, character |-> character,
                output |-> LspCharacterToByteIndex(line, character)]
    /\ UNCHANGED <<map, file_map, parse_errors, command_names_cache, event_names_cache,
                   diagnostic_info_cache, lens_data_cache, position_index_cache,
                   reference_limit, server, threads>>

NextCompletion ==
    \/ \E character \in Characters :
          last.op = "new" /\ Converted(<<>>, character)
    \/ \E c \in Chars :
          /\ last.op = "lsp_character_to_byte_index"
          /\ Len(last.line) < MaxLineChars
          /\ Converted(Append(last.line, c), last.character)
    \/ \E character \in Characters :
          last.op = "lsp_character_to_byte_index" /\ Converted(last.line, character)

SpecCompletion == Init /\ [][NextCompletion]_vars

----------------------------------------------------------------------------
(* What a caller can observe of the index *)

AllKeys == {IndexKey(e, n) : e \in EntityType, n \in Names}

(* the locations get_locations returns for key that lie in path, in order *)
StoredFor(path, key) ==
    SelectSeq(GetLocations(map, key.entity, key.name), LAMBDA loc : loc.path = path)

(* the locations the findings of one file give to key, in order *)
FindingsFor(path, findings, key) ==
    LET mine == SelectSeq(findings, LAMBDA f : f.entity = key.entity /\ f.key = key.name)
    IN  [i \in 1..Len(mine) |-> InfoOfFinding(path, mine[i])]

FindingKeys(findings) == {IndexKey(f.entity, f.key) : f \in SeqRange(findings)}

(* the paths other than path whose key list in file_map names key *)
OtherPathsListing(key, path) ==
    {q \in (DOMAIN file_map) \ {path} : key \in SeqRange(file_map[q])}

----------------------------------------------------------------------------
(* C1: re-indexing is a full replace: right after add_file(path, F2) the    *)
(* locations stored for path are exactly the findings of F2, a key the      *)
(* path held before that F2 lacks has no location for path, and a key of    *)
(* both still resolves for path.                                            *)
C1_ReindexReplaces ==
    last.op = "add_file" =>
        /\ \A key \in AllKeys :
              StoredFor(last.path, key) = FindingsFor(last.path, last.findings, key)
        /\ \A key \in last.purged :
              IF key \in FindingKeys(last.findings)
              THEN StoredFor(last.path, key) # <<>>
              ELSE StoredFor(last.path, key) = <<>>

(* add_file has replaced findings of which one key went and one stayed *)
C1_Witness ==
    /\ last.op = "add_file"
    /\ \E key \in last.purged : key \notin FindingKeys(last.findings)
    /\ \E key \in last.purged : key \in FindingKeys(last.findings)

(* C2: the primary map and the reverse file map agree in both directions:   *)
(* every key file_map lists for a path has a location of that path in map,  *)
(* and every location in map has its key listed in file_map for its path.   *)
C2_MapsAgree ==
    /\ \A path \in DOMAIN file_map : \A key \in SeqRange(file_map[path]) :
          key \in DOMAIN map /\ \E loc \in SeqRange(map[key]) : loc.path = path
    /\ \A key \in DOMAIN map : \A loc \in SeqRange(map[key]) :
          loc.path \in DOMAIN file_map /\ key \in SeqRange(file_map[loc.path])

(* a file was removed while another file still holds locations, under a     *)
(* key the two files shared                                                 *)
C2_Witness ==
    /\ last.op = "remove_file"
    /\ \E key \in last.purged : key \in DOMAIN map /\ map[key] # <<>>
    /\ Cardinality(DOMAIN file_map) = 1

(* C3: after remove_file(path) no location of path is left, a key that only *)
(* that path referenced is gone from the map, and no key of the map ever    *)
(* has an empty location list.                                              *)
C3_RemovalPrunes ==
    /\ last.op = "remove_file" =>
          /\ last.path \notin DOMAIN file_map
          /\ \A key \in AllKeys : StoredFor(last.path, key) = <<>>
          /\ \A key \in last.purged :
                OtherPathsListing(key, last.path) = {} =>
                    /\ key \notin DOMAIN map
                    /\ GetLocations(map, key.entity, key.name) = <<>>
    /\ \A key \in DOMAIN map : map[key] # <<>>

(* remove_file has purged a key only it referenced, and one it shared *)
C3_Witness ==
    /\ last.op = "remove_file"
    /\ \E key \in last.purged :
          OtherPathsListing(key, last.path) = {} /\ key \notin DOMAIN map
    /\ \E key \in last.purged : OtherPathsListing(key, last.path) # {}

(* C9: get_diagnostic_info(key) returns has_definition / has_calls /        *)
(* has_emitters / has_listeners each true exactly when the map holds a      *)
(* location of key with behavior Definition / Call / Emit / Listen.         *)
C9_AggregateMatchesMap ==
    \A key \in AllKeys :
        LET info == DiagnosticInfoResult(key)
            Has(b) == \E l \in SeqRange(GetLocations(map, key.entity, key.name)) :
                          l.behavior = b
        IN  /\ info.has_definition = Has("Definition")
            /\ info.has_calls = Has("Call")
            /\ info.has_emitters = Has("Emit")
            /\ info.has_listeners = Has("Listen")

(* aggregates are cached for a command that two files define and call and  *)
(* for an event that is emitted                                             *)
C9_Witness ==
    /\ Cardinality(DOMAIN file_map) = 2
    /\ \E key \in DOMAIN diagnostic_info_cache :
          /\ diagnostic_info_cache[key].has_definition
          /\ diagnostic_info_cache[key].has_calls
          /\ Cardinality({loc.path : loc \in SeqRange(map[key])}) = 2
    /\ \E key \in DOMAIN diagnostic_info_cache : diagnostic_info_cache[key].has_emitters

(* C10: get_all_names(Command) and get_all_names(Event) return exactly the  *)
(* names of the keys of that kind that have at least one location, each     *)
(* once, paired with a Definition location of that key when one exists.     *)
C10_NamesMatchMap ==
    \A entity \in {"Command", "Event"} :
        LET result == AllNamesResult(entity) IN
        /\ {item.name : item \in result} =
              {n \in Names : GetLocations(map, entity, n) # <<>>}
        /\ \A a, b \in result : a.name = b.name => a = b
        /\ \A item \in result :
              LET locs == GetLocations(map, entity, item.name) IN
              IF \E l \in SeqRange(locs) : l.behavior = "Definition"
              THEN /\ item.definition # None
                   /\ item.definition[1] \in SeqRange(locs)
                   /\ item.definition[1].behavior = "Definition"
              ELSE item.definition = None

(* both name lists are cached while two files are indexed, one with a name  *)
(* that has a definition and one with a name that has none                  *)
C10_Witness ==
    /\ Cardinality(DOMAIN file_map) = 2
    /\ command_names_cache # None /\ event_names_cache # None
    /\ \E item \in command_names_cache[1] : item.definition # None
    /\ \E item \in event_names_cache[1] : item.definition = None

(* C8: get_lens_data(path) returns the same groupings as a fresh            *)
(* computation from the current index, whatever add_file and remove_file    *)
(* calls came before, on this path or on another.                           *)
C8_LensMatchesIndex ==
    \A path \in Paths :
        LensDataResult(path) = ComputeLensData(map, file_map, path, reference_limit)

(* C6: for every finding of a file, with half-open range [start, end),      *)
(* get_key_at_position(path, p) returns a key for every p with              *)
(* start <= p < end and does not return that finding for p = end; on the    *)
(* start line p is inside iff its column >= the start column, on the end    *)
(* line iff its column < the end column, and always on a line between.      *)
C6_PositionLookup ==
    \A path \in DOMAIN file_map : \A key \in SeqRange(file_map[path]) :
        \A loc \in SeqRange(StoredFor(path, key)) : \A p \in Positions :
            LET result == KeyAtPositionResult(path, p) IN
            /\ (PosLE(loc.range.start, p) /\ PosLT(p, loc.range.end)) => result # None
            /\ p = loc.range.end => (result = None \/ result[1].loc # loc)
            /\ loc.range.start.line < loc.range.end.line =>
                  IsPositionInRange(p, loc.range) =
                      \/ p.line = loc.range.start.line
                            /\ p.character >= loc.range.start.character
                      \/ p.line = loc.range.end.line
                            /\ p.character < loc.range.end.character
                      \/ loc.range.start.line < p.line /\ p.line < loc.range.end.line

(* C7: the cached lookup get_key_at_position(path, p) returns a result if   *)
(* and only if a linear scan over the file's current locations finds a      *)
(* range containing p, and what it returns is a key and a location          *)
(* currently stored for that path.                                          *)
C7_CachedLookupMatchesScan ==
    \A path \in Paths : \A p \in Positions :
        LET result == KeyAtPositionResult(path, p) IN
        /\ (result # None) = (LinearScanPosition(path, p) # None)
        /\ result # None =>
              /\ path \in DOMAIN file_map
              /\ result[1].key \in SeqRange(file_map[path])
              /\ result[1].loc \in SeqRange(StoredFor(path, result[1].key))

(* the findings the file held before the threads' calls, and the findings   *)
(* a write call leaves it with                                              *)
HeldBefore(path) == IF last.op = "add_file" /\ last.path = path THEN last.findings ELSE <<>>
LeftBy(call) == IF call.op = "add_file" THEN call.findings ELSE <<>>

(* C4: a reader running at any point during add_file(path, F2) (or          *)
(* remove_file(path)) over a state holding F1 for path observes, for that   *)
(* path, exactly the locations of F1 or exactly those of F2 (or none).      *)
C4_WritesLookAtomic ==
    \A t \in Threads :
        (threads[t].op = "get_locations" /\ threads[t].writer # None) =>
            LET w == threads[t].writer[1]
                seen == SelectSeq(threads[t].result, LAMBDA loc : loc.path = w.path)
            IN  \/ seen = FindingsFor(w.path, HeldBefore(w.path), threads[t].key)
                \/ seen = FindingsFor(w.path, LeftBy(w), threads[t].key)

(* the write calls made on path, in flight or returned *)
WritesOn(path) ==
    {t \in Threads : threads[t].op \in {"add_file", "remove_file"} /\ threads[t].path = path}

(* locs holds nothing but locations of version, each no more often *)
WithinVersion(locs, version) ==
    \A x \in SeqRange(locs) :
        Cardinality({i \in 1..Len(locs) : locs[i] = x})
            <= Cardinality({i \in 1..Len(version) : version[i] = x})

(* C5: in every interleaving of add_file calls, two of them on one path     *)
(* included, the locations stored for the path are never a mixture of the   *)
(* findings of two calls and never hold a finding more often than its file  *)
(* does, and once the calls have returned the path holds exactly the        *)
(* findings of one of them.                                                 *)
C5_NoStalePlusFresh ==
    \A path \in Paths :
        LET versions == {HeldBefore(path)} \cup {LeftBy(threads[t]) : t \in WritesOn(path)}
        IN  (\A t \in WritesOn(path) : threads[t].op = "add_file") =>
            /\ \E v \in versions : \A key \in AllKeys :
                  WithinVersion(StoredFor(path, key), FindingsFor(path, v, key))
            /\ (WritesOn(path) # {} /\ \A t \in WritesOn(path) : threads[t].pc = "done") =>
                  \E t \in WritesOn(path) : \A key \in AllKeys :
                      StoredFor(path, key) = FindingsFor(path, LeftBy(threads[t]), key)


(* C11: after process_file_content(path, content) has returned for content  *)
(* that fails to parse, get_locations returns no location of that path.     *)
C11_FailurePurges ==
    (last.op = "process_file_content failed" /\ IsSupportedFile(last.path)) =>
        \A key \in AllKeys : StoredFor(last.path, key) = <<>>

(* what the index holds for one file: its locations under every key, its    *)
(* key list and its parse error                                             *)
FileView(q) ==
    [locations |-> [key \in AllKeys |-> StoredFor(q, key)],
     keys |-> IF q \in DOMAIN file_map THEN Some(file_map[q]) ELSE None,
     error |-> GetParseError(parse_errors, q)]

(* C12: an operation on one path (a processing that succeeds or fails,      *)
(* remove_file, set_parse_error) leaves the locations, the key list and the *)
(* parse error of every other path as they were.                            *)
C12_OtherFilesUntouched ==
    [][\A q \in ProcessPaths : q # last'.path => FileView(q)' = FileView(q)]_vars

(* a file was removed, or failed to parse, while another file holds a       *)
(* location under one of its keys and has a parse error recorded            *)
C12_Witness ==
    /\ last.op \in {"remove_file", "process_file_content failed"}
    /\ \E q \in Paths \ {last.path} :
          /\ q \in DOMAIN parse_errors
          /\ \E key \in last.purged : StoredFor(q, key) # <<>>


(* the tasks spawned for a path, and the one of its latest edit *)
TasksOf(path) == {id \in TaskIds : tasks[id].path = path}
LatestTask(path) == CHOOSE id \in TasksOf(path) : \A other \in TasksOf(path) : tasks[other].edit <= tasks[id].edit

(* the index holds for the path of a task the findings of its content *)
HoldsContentOf(id) ==
    \A key \in AllKeys :
        StoredFor(tasks[id].path, key) = FindingsFor(tasks[id].path, tasks[id].content.findings, key)

(* C13: when every edit of a path but the latest was superseded while its   *)
(* task still slept, exactly one task of the path has re-parsed, it is the  *)
(* task of the latest edit, and once it has run the index holds the         *)
(* findings of the latest content for the path.                             *)
C13_BurstCollapses ==
    \A path \in Paths :
        (/\ TasksOf(path) # {}
         /\ \A id \in TasksOf(path) \ {LatestTask(path)} : tasks[id].was = "sleeping"
         /\ tasks[LatestTask(path)].pc \in {"publishing", "done"})
        => /\ {id \in TasksOf(path) : tasks[id].runs > 0} = {LatestTask(path)}
           /\ tasks[LatestTask(path)].runs = 1
           /\ HoldsContentOf(LatestTask(path))

(* three edits of one file in a burst: two tasks were cancelled asleep and  *)
(* the third has re-indexed the file with findings                          *)
C13_Witness ==
    \E path \in Paths :
        /\ Cardinality(TasksOf(path)) = 3
        /\ \A id \in TasksOf(path) \ {LatestTask(path)} : tasks[id].was = "sleeping"
        /\ tasks[LatestTask(path)].pc = "done"
        /\ tasks[LatestTask(path)].content.findings # <<>>
        /\ \E key \in AllKeys : StoredFor(path, key) # <<>>

FilesHolding(m, key) == IF key \in DOMAIN m THEN {loc.path : loc \in SeqRange(m[key])} ELSE {}

(* C15: the re-index of path P by a task collects P and every file holding  *)
(* a location of a key P had before the edit or has after it, and no other  *)
(* file; a task that is done has published for exactly the collected files. *)
C15_RepublishSet ==
    /\ [][\A id \in TaskIds :
            (tasks[id].pc = "sleeping" /\ tasks'[id].pc = "publishing") =>
                tasks'[id].affected_files =
                    {tasks[id].path} \cup
                    UNION {FilesHolding(map', key) :
                              key \in SeqRange(KeysOf(file_map, tasks[id].path))
                                      \cup SeqRange(KeysOf(file_map', tasks[id].path))}]_vars
    /\ [](\A id \in TaskIds :
            (tasks[id].pc = "done" /\ IsSupportedFile(tasks[id].path)) =>
                tasks[id].published = tasks[id].affected_files)

(* a task is done whose edit replaced the key of its file: it has published *)
(* for the other file, which holds the old key, and not the new one         *)
C15_Witness ==
    \E id \in TaskIds :
        /\ tasks[id].pc = "done"
        /\ SeqRange(tasks[id].old_keys) # {}
        /\ SeqRange(tasks[id].new_keys) # {}
        /\ SeqRange(tasks[id].old_keys) \cap SeqRange(tasks[id].new_keys) = {}
        /\ \E q \in Paths \ {tasks[id].path} :
              /\ q \in tasks[id].published
              /\ \A key \in SeqRange(tasks[id].new_keys) : StoredFor(q, key) = <<>>


(* the partner of a behavior: Definition <-> Call, Emit <-> Listen *)
Partner(behavior) ==
    CASE behavior \in {"Definition", "Call"} -> CHOOSE b \in {"Definition", "Call"} : b # behavior
      [] behavior \in {"Emit", "Listen"} -> CHOOSE b \in {"Emit", "Listen"} : b # behavior

(* the occurrences of key other than at the place of origin whose behavior  *)
(* is the partner of the origin's                                           *)
PartnersOf(key, origin) ==
    {x \in SeqRange(GetLocations(map, key.entity, key.name)) :
        x.behavior = Partner(origin.behavior) /\ ~(x.range = origin.range /\ x.path = origin.path)}

(* the places a response of handle_goto_definition links to *)
LinkedPlaces(result) ==
    IF result = None THEN {}
    ELSE {[path |-> link.target_uri, range |-> link.target_range] : link \in SeqRange(result[1])}

(* C16: resolving from an occurrence of a key returns exactly the           *)
(* occurrences of the key with the partner behavior, none at the origin's   *)
(* own range and path and none of another behavior; the request resolves    *)
(* from the occurrence at its position and links to exactly those places.   *)
C16_AdjacencyExact ==
    /\ \A key \in DOMAIN map : \A origin \in SeqRange(map[key]) :
          SeqRange(ResolveTargets(map, key, origin)) = PartnersOf(key, origin)
    /\ \A path \in Paths, position \in GotoPositions :
          LET at == KeyAtPositionResult(path, position) IN
          at # None =>
              LinkedPlaces(GotoDefinitionResult(path, position)) =
                  {[path |-> x.path, range |-> x.range] : x \in PartnersOf(at[1].key, at[1].loc)}

(* one Definition in the backend file and one Call in the frontend file:    *)
(* the request on the Definition links to the Call alone and the request on *)
(* the Call to the Definition alone, the position arrays being cached       *)
C16_Witness ==
    /\ GetLocations(map, "Command", "f") =
          <<LocationInfo("lib.rs", R1, "Definition"), LocationInfo("app.ts", R2, "Call")>>
    /\ Paths \subseteq DOMAIN position_index_cache
    /\ LinkedPlaces(GotoDefinitionResult("lib.rs", Pos(0, 0))) = {[path |-> "app.ts", range |-> R2]}
    /\ LinkedPlaces(GotoDefinitionResult("app.ts", Pos(1, 0))) = {[path |-> "lib.rs", range |-> R1]}

(* C17: for two occurrences X and Y of one key at different places, Y is    *)
(* among the targets resolved from X exactly when X is among the targets    *)
(* resolved from Y.                                                         *)
C17_AdjacencySymmetric ==
    \A key \in DOMAIN map : \A x, y \in SeqRange(map[key]) :
        ~(x.range = y.range /\ x.path = y.path) =>
            (y \in SeqRange(ResolveTargets(map, key, x))
                <=> x \in SeqRange(ResolveTargets(map, key, y)))

(* a key with a Definition, a Call of it elsewhere and a second Call: the   *)
(* Definition and a Call resolve to each other, the two Calls do not        *)
C17_Witness ==
    \E key \in DOMAIN map : \E x, y, z \in SeqRange(map[key]) :
        /\ x.behavior = "Definition" /\ y.behavior = "Call" /\ z.behavior = "Call"
        /\ x.path # y.path /\ ~(y.range = z.range /\ y.path = z.path)
        /\ y \in SeqRange(ResolveTargets(map, key, x))
        /\ x \in SeqRange(ResolveTargets(map, key, y))
        /\ z \notin SeqRange(ResolveTargets(map, key, y))
        /\ position_index_cache # EmptyMap


(* the diagnostics of a file with the given text about the given name *)
DiagnosticsAbout(path, text, name) ==
    SelectSeq(FileDiagnosticsResult(path), LAMBDA d : d.text = text /\ d.args[1] = <<name>>)

(* the occurrences of key in path with the given behavior, in order *)
OccurrencesIn(path, key, behavior) ==
    SelectSeq(StoredFor(path, key), LAMBDA l : l.behavior = behavior)

(* some location of key, in any file, has the behavior *)
HasAnywhere(key, behavior) ==
    \E l \in SeqRange(GetLocations(map, key.entity, key.name)) : l.behavior = behavior

(* C18: a file that calls a command without Definition one or more times    *)
(* gets exactly one 'not defined' diagnostic for it, at the range of the    *)
(* first call; likewise one 'no listeners' diagnostic for an event it emits *)
(* one or more times that has no Listen.                                    *)
C18_FirstOccurrenceOnly ==
    \A path \in DOMAIN file_map : \A name \in Names :
        /\ (/\ OccurrencesIn(path, IndexKey("Command", name), "Call") # <<>>
            /\ ~HasAnywhere(IndexKey("Command", name), "Definition"))
           => DiagnosticsAbout(path, "Command is not defined in Rust backend", name) =
                 <<Diagnostic(OccurrencesIn(path, IndexKey("Command", name), "Call")[1].range,
                              "Command is not defined in Rust backend", <<<<name>>>>)>>
        /\ (/\ OccurrencesIn(path, IndexKey("Event", name), "Emit") # <<>>
            /\ ~HasAnywhere(IndexKey("Event", name), "Listen"))
           => DiagnosticsAbout(path, "Event is emitted but no listeners found", name) =
                 <<Diagnostic(OccurrencesIn(path, IndexKey("Event", name), "Emit")[1].range,
                              "Event is emitted but no listeners found", <<<<name>>>>)>>

(* the text of the presence diagnostic of each behavior *)
RuleText(behavior) ==
    CASE behavior = "Definition" -> "Command is defined but never invoked in frontend"
      [] behavior = "Call" -> "Command is not defined in Rust backend"
      [] behavior = "Emit" -> "Event is emitted but no listeners found"
      [] behavior = "Listen" -> "Event is listened for but never emitted"

(* C19: for every occurrence of a command or an event in a file: if its     *)
(* key has no counterpart (Call for a Definition, Definition for a Call,    *)
(* Listen for an Emit, Emit for a Listen) anywhere in the index the file    *)
(* gets the diagnostic of its rule (at the occurrence itself for a          *)
(* Definition or a Listen), and if the counterpart exists the file gets no  *)
(* diagnostic of that rule for the key.                                     *)
C19_PresenceRules ==
    \A path \in DOMAIN file_map : \A key \in SeqRange(file_map[path]) :
        \A loc \in SeqRange(StoredFor(path, key)) :
            LET about == DiagnosticsAbout(path, RuleText(loc.behavior), key.name) IN
            ((key.entity = "Command" /\ loc.behavior \in {"Definition", "Call"})
                \/ (key.entity = "Event" /\ loc.behavior \in {"Emit", "Listen"}))
            => IF HasAnywhere(key, Partner(loc.behavior))
               THEN about = <<>>
               ELSE \E d \in SeqRange(about) :
                       loc.behavior \in {"Definition", "Listen"} => d.range = loc.range

(* the backend defines f and nothing calls it, the frontend emits g and the *)
(* backend listens: the backend file gets 'defined but never invoked' and   *)
(* the frontend file nothing, the aggregates of both files being cached     *)
C19_Witness ==
    /\ GetLocations(map, "Command", "f") = <<LocationInfo("lib.rs", R1, "Definition")>>
    /\ HasAnywhere(IndexKey("Event", "g"), "Emit") /\ HasAnywhere(IndexKey("Event", "g"), "Listen")
    /\ DiagnosticInfoResult(IndexKey("Command", "f")).has_definition
    /\ ~DiagnosticInfoResult(IndexKey("Command", "f")).has_calls
    /\ DiagnosticsAbout("lib.rs", RuleText("Definition"), "f") # <<>>
    /\ FileDiagnosticsResult("app.ts") = <<>>
    /\ {IndexKey("Command", "f"), IndexKey("Event", "g")} \subseteq DOMAIN diagnostic_info_cache

(* a type of TypeScript that a literal or a mapped primitive gives, and one *)
(* that stands for an unresolved value                                      *)
IsPrimitiveTs(type_name) == type_name # <<>> /\ type_name[1] \in {"string", "number", "boolean"}
IsDynamicTs(type_name) == type_name # <<>> /\ type_name[1] \in {"any", "object"}

(* C20: every type-mismatch diagnostic (argument, return type, field)       *)
(* compares a frontend type that is not dynamic with a backend type that    *)
(* maps to a primitive.                                                     *)
C20_MismatchOnlyOnPrimitives ==
    \A path \in Paths : \A d \in SeqRange(FileDiagnosticsResult(path)) :
        /\ d.text = "Type mismatch for argument" =>
              IsPrimitiveTs(d.args[2]) /\ ~IsDynamicTs(d.args[3])
        /\ d.text = "Return type mismatch for command" =>
              IsPrimitiveTs(d.args[2]) /\ ~IsDynamicTs(d.args[3])
        /\ d.text = "Type mismatch for field in return type" =>
              IsPrimitiveTs(d.args[3]) /\ ~IsDynamicTs(d.args[4])

(* the first Definition among the locations of key, if any *)
DefinitionOf(entity, name) ==
    SelectSeq(GetLocations(map, entity, name), LAMBDA l : l.behavior = "Definition")

(* the field-mismatch diagnostics the file gets at a range for a field *)
FieldMismatches(path, range, field) ==
    SelectSeq(FileDiagnosticsResult(path), LAMBDA d :
        d.text = "Type mismatch for field in return type" /\ d.range = range /\ d.args[1] = field)

(* the struct fields an interface field corresponds to: by its camelCase    *)
(* translation if the struct carries the renaming attribute, by its name    *)
(* otherwise                                                                *)
CounterpartsOf(sd, if_f) ==
    SelectSeq(sd.fields[1], LAMBDA f :
        if_f.name = (IF ShouldRenameToCamel(sd.attributes) THEN SnakeToCamel(f.name) ELSE f.name))

(* C21: for every call in a file whose expected type names an indexed       *)
(* interface and whose command returns an indexed struct, each interface    *)
(* field that corresponds to a struct field (by camelCase translation only  *)
(* if the struct carries the renaming attribute) gets exactly one field-    *)
(* mismatch diagnostic at the call when the mapped type of the struct field *)
(* differs from its own, and none when the two are equal.                   *)
C21_FieldByField ==
    \A path \in DOMAIN file_map : \A name \in Names :
        \A loc \in SeqRange(OccurrencesIn(path, IndexKey("Command", name), "Call")) :
            LET def == DefinitionOf("Command", name) IN
            (def # <<>> /\ loc.return_type # None /\ def[1].return_type # None) =>
                LET id == DefinitionOf("Interface", TypeAsName(TrimAngles(loc.return_type[1])))
                    sd == DefinitionOf("Struct", TypeAsName(def[1].return_type[1]))
                IN  (id # <<>> /\ sd # <<>>) =>
                        \A i \in 1..Len(id[1].fields[1]) :
                            LET if_f == id[1].fields[1][i]
                                st_f == CounterpartsOf(sd[1], if_f)
                            IN  st_f # <<>> =>
                                    Len(FieldMismatches(path, loc.range, if_f.name)) =
                                        IF MapRustTypeToTs(st_f[1].type_name) # if_f.type_name
                                        THEN 1 ELSE 0

(* the diagnostics of one message the file gets at a range, the value at    *)
(* position k of the message being arg                                      *)
DiagnosticsAt(path, range, text, k, arg) ==
    SelectSeq(FileDiagnosticsResult(path), LAMBDA d :
        d.text = text /\ d.range = range /\ d.args[k] = arg)

(* a frontend argument names a backend parameter: by its camelCase          *)
(* translation or as it is                                                  *)
NamesParameter(ts_p, rp) == ts_p.name \in {SnakeToCamel(rp.name), rp.name}

IsOptional(type_name) == type_name # <<>> /\ type_name[1] = "Option<"

(* C22: for every call with named arguments of a command whose Definition   *)
(* has parameters: every argument that names no backend parameter (by the   *)
(* camelCase translation or the untranslated name) gets one 'does not       *)
(* expect argument' diagnostic at the call; every backend parameter that is *)
(* not optional and is named by no argument gets one 'missing required      *)
(* argument' diagnostic; an optional backend parameter gets none.           *)
C22_ArgumentCheck ==
    \A path \in DOMAIN file_map : \A name \in Names :
        \A loc \in SeqRange(OccurrencesIn(path, IndexKey("Command", name), "Call")) :
            LET def == DefinitionOf("Command", name) IN
            (def # <<>> /\ loc.parameters # None /\ def[1].parameters # None) =>
                LET ts_params == loc.parameters[1]
                    rust_params == def[1].parameters[1]
                IN  /\ \A i \in 1..Len(ts_params) :
                           (~\E j \in 1..Len(rust_params) : NamesParameter(ts_params[i], rust_params[j]))
                           => Len(DiagnosticsAt(path, loc.range, "Command does not expect argument",
                                                2, ts_params[i].name)) = 1
                    /\ \A j \in 1..Len(rust_params) :
                           Len(DiagnosticsAt(path, loc.range, "Missing required argument",
                                             1, SnakeToCamel(rust_params[j].name))) =
                              IF /\ ~IsOptional(rust_params[j].type_name)
                                 /\ ~\E i \in 1..Len(ts_params) : NamesParameter(ts_params[i], rust_params[j])
                              THEN 1 ELSE 0

(* the findings of a parse that lie at a range *)
FindingsAt(findings, range) == SelectSeq(findings, LAMBDA f : f.range = range)

(* the frontend file has just been processed with the script as content *)
JustProcessed(path, content) ==
    /\ last.op = "process_file_content" /\ last.path = path
    /\ last.findings = ParseFrontend(content, 0)

(* C23: every directed-emit call emitTo(target, event, ..) of a script      *)
(* gives exactly one finding, an Event Emit keyed on the event at the       *)
(* second argument, and none at the first argument; and once the file is    *)
(* processed and the event has no Listen anywhere, the diagnostics of the   *)
(* file hold exactly one 'no listeners' diagnostic for the event and none   *)
(* for the target.                                                          *)
C23_DirectedEmit ==
    \A content \in EmitScripts : \A i \in 1..Len(content.calls) :
        LET call == content.calls[i]
            findings == ParseFrontend(content, 0)
            target == call.args[1]
            event == call.args[Len(call.args)]
        IN  ResolveAlias(content.aliases, call.func) = "emitTo" =>
            /\ FindingsAt(findings, event.range) =
                  <<Finding(event.value, "Event", "Emit", event.range)>>
            /\ FindingsAt(findings, target.range) = <<>>
            /\ \A f \in SeqRange(findings) : f.key # target.value
            /\ (JustProcessed("app.ts", content) /\ ~HasAnywhere(IndexKey("Event", event.value), "Listen"))
               => /\ Len(DiagnosticsAbout("app.ts", "Event is emitted but no listeners found",
                                          event.value)) = 1
                  /\ DiagnosticsAbout("app.ts", "Event is emitted but no listeners found",
                                      target.value) = <<>>

(* the locations of key in the files other than path that are of the same   *)
(* dialect as path, or of the other one                                     *)
GroupTargets(path, key, same) ==
    SelectSeq(GetLocations(map, key.entity, key.name), LAMBDA l :
        l.path # path /\ ((Extension(l.path) = "rs") = (Extension(path) = "rs")) = same)

(* the lenses get_lens_data returns for path at a range that point into the *)
(* group                                                                    *)
GroupEntries(path, key, range, same) ==
    SelectSeq(LensDataResult(path), LAMBDA e :
        e.range = range /\ SeqRange(e.targets) \subseteq SeqRange(GroupTargets(path, key, same)))

(* C24: for every symbol of a file and every occurrence of it there, the    *)
(* lenses of the same-dialect group and those of the cross-dialect group    *)
(* are each: one 'Go to' entry per target file with that file's locations   *)
(* when the group has at most reference_limit files, one 'N references'     *)
(* entry with all the locations otherwise; and no lens targets the file     *)
(* itself.                                                                  *)
C24_LensGroupings ==
    \A path \in DOMAIN file_map :
        /\ \A e \in SeqRange(LensDataResult(path)) : \A t \in SeqRange(e.targets) : t.path # path
        /\ \A key \in SeqRange(file_map[path]) : \A my_loc \in SeqRange(StoredFor(path, key)) :
              \A same \in BOOLEAN :
                  LET targets == GroupTargets(path, key, same)
                      files == {t.path : t \in SeqRange(targets)}
                      entries == GroupEntries(path, key, my_loc.range, same)
                  IN  IF Cardinality(files) <= reference_limit
                      THEN /\ Len(entries) = Cardinality(files)
                           /\ SeqRange(entries) =
                                 {Lens(my_loc.range, GoTo(FileName(f)),
                                       SelectSeq(targets, LAMBDA t : t.path = f)) : f \in files}
                      ELSE entries = <<Lens(my_loc.range, References(Len(targets)), targets)>>

(* C25: add_file(path, F) applied again right after add_file(path, F)       *)
(* leaves the result of every query (get_locations, get_key_at_position,    *)
(* get_diagnostic_info, get_all_names, get_lens_data, document and          *)
(* workspace symbols) as the first application left it.                     *)
C25_AddFileIdempotent ==
    last.op = "add_file again" => QueryView = last.before

(* a file of two findings has been added twice in a row to an index that    *)
(* holds another file with the same command, whose lenses were cached       *)
C25_Witness ==
    /\ last.op = "add_file again" /\ Len(last.findings) = 2
    /\ Cardinality(DOMAIN file_map) = 2
    /\ last.path \notin DOMAIN lens_data_cache
    /\ DOMAIN lens_data_cache # {}
    /\ \E key \in IdemKeys : Len(GetLocations(map, key.entity, key.name)) >= 2

(* the indexed locations whose name, lower-cased, contains the lower-cased  *)
(* query, each as the key and the place it has in the list of the key       *)
MatchingLocations(query) ==
    {x \in UNION {{<<key, i>> : i \in 1..Len(map[key])} : key \in DOMAIN map} :
        StrContains(ToLowercase(x[1].name), ToLowercase(query))}

(* C26: a workspace symbol search returns only symbols whose name, lower-   *)
(* cased, contains the lower-cased query, never more than 100 of them, and  *)
(* a symbol for every matching indexed location when fewer than 100 match.  *)
C26_SearchIsCappedSubstringMatch ==
    last.op = "search_workspace_symbols" =>
        LET symbols == last.findings
            matching == MatchingLocations(last.query)
        IN  /\ \A i \in 1..Len(symbols) :
                  StrContains(ToLowercase(symbols[i].name.name), ToLowercase(last.query))
            /\ Len(symbols) <= 100
            /\ Cardinality(matching) < 100 =>
                  /\ Len(symbols) = Cardinality(matching)
                  /\ \A x \in matching :
                        \E i \in 1..Len(symbols) :
                            symbols[i] = SymbolInformation(x[1], map[x[1]][x[2]], map[x[1]][x[2]].path)

(* the query GO has found the commands Go and go, which have more than 100  *)
(* locations, and returned 100 symbols                                      *)
C26_Witness ==
    /\ last.op = "search_workspace_symbols" /\ last.query = <<"G", "O">>
    /\ Cardinality(MatchingLocations(last.query)) > 100
    /\ IndexKey("Event", <<"a", "g">>) \in DOMAIN map
    /\ Len(last.findings) = 100
    /\ \E i \in 1..100 : last.findings[i].name.name = <<"G", "o">>

(* C27: the type map recurses into containers in both directions and is     *)
(* exact on primitive leaves: a Vec of T maps to the array of T's mapping   *)
(* and an Option of T to T's mapping or null; an array of T maps to the Vec *)
(* of T's mapping and a nullable T to the Option of T's mapping; String and *)
(* string, bool and boolean map to each other, and every integer and float  *)
(* type maps to number                                                      *)
IsVec(t) == Len(t) >= 3 /\ Head(t) = "Vec<"
IsOption(t) == Len(t) >= 3 /\ Head(t) = "Option<"
IsArray(t) == Len(t) >= 2 /\ t[Len(t)] = "[]"
IsNullable(t) == Len(t) >= 2 /\ t[Len(t)] = " | null"

RustToTsRecurses ==
    last.op = "map_rust_type_to_ts" =>
        LET t == last.input
            inner == SubSeq(t, 2, Len(t) - 1)
        IN  /\ IsVec(t) => last.output = ArrayOf(MapRustTypeToTs(inner))
            /\ IsOption(t) => last.output = NullableOf(MapRustTypeToTs(inner))

TsToRustRecursesIntoArrays ==
    last.op = "map_ts_type_to_rust" /\ IsArray(last.input) =>
        last.output = VecOf(MapTsTypeToRust(SubSeq(last.input, 1, Len(last.input) - 1)))

TsToRustRecursesIntoNullables ==
    last.op = "map_ts_type_to_rust" /\ IsNullable(last.input) =>
        last.output = OptionOf(MapTsTypeToRust(SubSeq(last.input, 1, Len(last.input) - 1)))

LeavesMapExactly ==
    /\ last.op = "map_rust_type_to_ts" =>
          /\ last.input = <<"String">> => last.output = <<"string">>
          /\ last.input = <<"bool">> => last.output = <<"boolean">>
          /\ (\E n \in RustIntegerAndFloatTypes : last.input = <<n>>) => last.output = <<"number">>
    /\ last.op = "map_ts_type_to_rust" =>
          /\ last.input = <<"string">> => last.output = <<"String">>
          /\ last.input = <<"boolean">> => last.output = <<"bool">>

C27_TypeMapBothDirections ==
    /\ RustToTsRecurses
    /\ TsToRustRecursesIntoArrays
    /\ TsToRustRecursesIntoNullables
    /\ LeavesMapExactly

(* the tokens of a text a range covers *)
TextCovered(text, range) ==
    LET at == SelectSeq([i \in 1..Len(text) |-> i], LAMBDA i :
                  PosLE(range.start, PointOf(text, i)) /\ PosLT(PointOf(text, i), range.end))
    IN  [k \in 1..Len(at) |-> text[at[k]]]

(* the script regions of a document: the text of each and the line of the   *)
(* document on which it starts; and the findings of a region in the         *)
(* coordinates of the region                                                *)
Regions(document) ==
    LET spans == ScriptSpans(document, 1)
    IN  [i \in 1..Len(spans) |->
            [text |-> SubSeq(document, spans[i].tag_close, spans[i].script_end - 1),
             line |-> PointOf(document, spans[i].tag_close).line]]

RegionFindings(region) == ParseFrontend(ScriptOf(region.text), 0)

OnLine(f, line) ==
    [f EXCEPT !.range = Rng(Pos(f.range.start.line + line, f.range.start.character),
                            Pos(f.range.end.line + line, f.range.end.character))]

InDocument(region) ==
    [k \in 1..Len(RegionFindings(region)) |-> OnLine(RegionFindings(region)[k], region.line)]

ParsedVue == last.op = "parse" /\ last.path = "vue"

(* the findings returned are those of all regions, the starting line of the *)
(* region added to the lines of each                                        *)
LinesOffsetAndRegionsUnioned ==
    ParsedVue =>
        last.findings = Flatten([i \in 1..Len(Regions(last.content)) |->
                                    InDocument(Regions(last.content)[i])])

(* a range returned covers in the document the text it covers in the region *)
CoversTheSameText ==
    ParsedVue =>
        \A i \in 1..Len(Regions(last.content)) :
            LET region == Regions(last.content)[i] IN
            \A k \in 1..Len(RegionFindings(region)) :
                TextCovered(last.content, InDocument(region)[k].range)
                    = TextCovered(region.text, RegionFindings(region)[k].range)

(* C28: for a document with embedded scripts, the 0-based starting line of  *)
(* a script region is added to the start and the end line of every range    *)
(* produced from the region, so that the range covers the same text in the  *)
(* document as in the region, and the findings of all regions are returned  *)
(* together                                                                 *)
C28_RangesAddressTheDocument == LinesOffsetAndRegionsUnioned /\ CoversTheSameText

(* the kind of the finding a location was made of *)
KindOfLocation(loc) ==
    CHOOSE e \in EntityType :
        \E f \in KindFindings : f.entity = e /\ f.behavior = loc.behavior /\ f.range = loc.range

KindsNeverMerged ==
    \A key \in KindKeys :
        \A loc \in SeqRange(GetLocations(map, key.entity, key.name)) :
            KindOfLocation(loc) = key.entity

(* a step leaves alone every key that is neither among the keys listed for  *)
(* the file of the call nor among the keys of the findings added            *)
OtherKindsUntouched ==
    \A key \in KindKeys :
        (key \notin last'.purged /\ key \notin FindingKeys(last'.findings)) =>
            /\ GetLocations(map', key.entity, key.name) = GetLocations(map, key.entity, key.name)
            /\ DiagnosticInfoResult(key)' = DiagnosticInfoResult(key)

(* C29: names that collide across kinds are kept apart: get_locations(kind, *)
(* name) returns only locations whose finding had that kind, and adding,    *)
(* replacing or removing occurrences of (kind1, name) changes neither the   *)
(* locations nor the diagnostic aggregate of (kind2, name), kind2 # kind1   *)
C29_KindsAreDisambiguated == [][KindsNeverMerged' /\ OtherKindsUntouched]_vars

(* the command f of a file has been replaced while the struct f, which the  *)
(* file never held, has a location elsewhere and a cached aggregate         *)
C29_Witness ==
    /\ last.op = "add_file"
    /\ last.purged = {IndexKey("Command", "f")}
    /\ FindingKeys(last.findings) = {IndexKey("Command", "f")}
    /\ GetLocations(map, "Struct", "f") # <<>>
    /\ IndexKey("Struct", "f") \in DOMAIN diagnostic_info_cache

(* C30: no operation of the index blocks for ever: in every interleaving of *)
(* add_file, remove_file, get_key_at_position, get_lens_data,               *)
(* get_all_names, get_diagnostic_info and the symbol queries on two         *)
(* threads, every call that was entered returns, so there is no deadlock    *)
(* among the locks of the primary map, the reverse map and the caches       *)
C30_EveryCallReturns ==
    \A t \in Threads : (threads[t].pc = "running") ~> (threads[t].pc = "done")

(* a call waits for a lock on which another call holds a guard *)
C30_Witness ==
    \E t \in Threads :
        /\ threads[t].pc = "running" /\ threads[t].program # <<>>
        /\ Head(threads[t].program).act = "acquire"
        /\ ~CanLock(t, Head(threads[t].program).lock, Head(threads[t].program).mode)
        /\ threads[t].held # {}

(* both calls have returned: the one on lib.rs and add_file(app.ts, F) *)
BothReturned ==
    /\ threads["t1"].pc = "done" /\ threads["t1"].path = "lib.rs"
    /\ threads["t2"].pc = "done" /\ threads["t2"].op = "add_file" /\ threads["t2"].path = "app.ts"

(* C31: pruning an emptied key never loses the location of another file:    *)
(* when remove_file(lib.rs), or the purge of add_file(lib.rs, ..), ran      *)
(* together with add_file(app.ts, F) and both have returned, every finding  *)
(* of F is stored under its key and listed in file_map[app.ts]              *)
C31_PruneKeepsOtherFiles ==
    BothReturned =>
        /\ "app.ts" \in DOMAIN file_map
        /\ file_map["app.ts"] = KeysInThisFile(threads["t2"].findings)
        /\ \A key \in AllKeys :
              StoredFor("app.ts", key) = FindingsFor("app.ts", threads["t2"].findings, key)

(* add_file(lib.rs, F) has returned on t1 *)
ReindexReturned ==
    threads["t1"].pc = "done" /\ threads["t1"].op = "add_file" /\ threads["t1"].path = "lib.rs"

LookupMatches(findings) ==
    \A p \in Positions :
        (KeyAtPositionResult("lib.rs", p) # None)
            <=> (\E f \in SeqRange(findings) : IsPositionInRange(p, f.range))

(* C32: a position lookup that runs together with a re-index leaves no      *)
(* stale position array cached: once add_file(lib.rs, F) has returned,      *)
(* every later get_key_at_position(lib.rs, p) returns a key exactly for the *)
(* positions p inside the range of a finding of F                           *)
C32_NoStalePositionArray == ReindexReturned => LookupMatches(threads["t1"].findings)

(* the mutation of t1, add_file or remove_file, has returned *)
MutationReturned == threads["t1"].pc = "done" /\ threads["t1"].op \in {"add_file", "remove_file"}

(* C33: a diagnostic-aggregate query that runs together with a mutation     *)
(* leaves no stale aggregate cached: once add_file or remove_file has       *)
(* returned, every later get_diagnostic_info(key) returns the four booleans *)
(* of the locations the key has now                                         *)
C33_NoStaleAggregate ==
    MutationReturned =>
        \A key \in AllKeys : DiagnosticInfoResult(key) = ComputeDiagnosticInfo(map, key)


(* the task id has re-indexed its file in this step *)
Reindexed(id) == tasks[id].pc = "sleeping" /\ tasks'[id].pc = "publishing"

(* C34: the republished set is sufficient: when a task re-indexes its path, *)
(* every file outside the set it goes on to publish (the path and the files *)
(* that hold a location of a key the path had before or has after the edit) *)
(* has the diagnostics it had before the edit, those on return types and    *)
(* fields that depend on a struct or interface of the path included         *)
C34_RepublishSetIsSufficient ==
    [][\A id \in TaskIds :
          Reindexed(id) =>
              \A file \in RepublishPaths \ tasks'[id].affected_files :
                  FileDiagnosticsResult(file)' = FileDiagnosticsResult(file)]_vars

(* the parse error that is recorded for path *)
ParseErrorOf(path) == GetParseError(parse_errors, path)

(* C35: the recorded parse error follows the parse state of the file: after *)
(* a processing of a path that fails, get_parse_error(path) returns the     *)
(* error and compute_file_diagnostics(path) returns no diagnostics; after a *)
(* processing that succeeds or a remove_file(path), get_parse_error(path)   *)
(* returns none; and no call on another path changes what is recorded       *)
C35_ParseErrorFollowsParseState ==
    [][/\ last'.op = "process_file_content failed" =>
             (ParseErrorOf(last.path) = Some("syntax error")
                 /\ FileDiagnosticsResult(last.path) = <<>>)'
       /\ last'.op \in {"process_file_content", "remove_file"} =>
             (ParseErrorOf(last.path) = None)'
       /\ \A path \in Paths \ {last'.path} : ParseErrorOf(path)' = ParseErrorOf(path)]_vars

(* the places of the index where a location of path is stored *)
PlacesOf(path) ==
    {place \in UNION {{<<key, i>> : i \in 1..Len(map[key])} : key \in DOMAIN map} :
        map[place[1]][place[2]].path = path}

(* the symbol of the location stored at a place *)
SymbolAt(place) ==
    LET loc == map[place[1]][place[2]]
    IN  SymbolInformation(place[1], loc, UriFromFilePath(loc.path)[1])

(* C36: get_document_symbols(path) returns exactly one symbol per finding   *)
(* of the file, one per location stored with that path, also when a symbol  *)
(* occurs several times in the file, and the symbols are in the order of    *)
(* their start lines                                                        *)
C36_OneSymbolPerFinding ==
    \A path \in Paths :
        LET symbols == GetDocumentSymbols(path, file_map, map) IN
        /\ Len(symbols) = Cardinality(PlacesOf(path))
        /\ \A place \in PlacesOf(path) :
              Cardinality({i \in 1..Len(symbols) : symbols[i] = SymbolAt(place)})
                  = Cardinality({other \in PlacesOf(path) : SymbolAt(other) = SymbolAt(place)})
        /\ \A i, j \in 1..Len(symbols) :
              i <= j => symbols[i].location.range.start.line <= symbols[j].location.range.start.line


(* the findings of every scanned file that parsed are in the index *)
ScannedFilesIndexed(task) ==
    \A k \in 1..Len(task.files) :
        LET file == task.files[k] IN
        file.parsed.ok =>
            /\ file.path \in DOMAIN file_map
            /\ file_map[file.path] = KeysInThisFile(file.parsed.findings)
            /\ \A key \in AllKeys :
                  StoredFor(file.path, key) = FindingsFor(file.path, file.parsed.findings, key)

(* a scanned file has a finding of the name with the behavior *)
ScannedSomewhere(task, name, behavior) ==
    \E k \in 1..Len(task.files) : \E f \in SeqRange(task.files[k].parsed.findings) :
        f.key = name /\ f.behavior = behavior

(* the behavior whose absence a presence diagnostic reports *)
CounterpartOf(text) ==
    CASE text = "Command is not defined in Rust backend" -> "Definition"
      [] text = "Command is defined but never invoked in frontend" -> "Call"
      [] text = "Event is listened for but never emitted" -> "Emit"
      [] text = "Event is emitted but no listeners found" -> "Listen"

(* C37: the scan publishes only after every scanned file is processed: each *)
(* diagnostic set it has published was computed from an index that holds    *)
(* the findings of all scanned files, so that none of them reports a        *)
(* counterpart as missing that a scanned file has                           *)
C37_ScanPublishesAfterProcessing ==
    \A id \in TaskIds :
        LET task == tasks[id] IN
        \A i \in 1..Len(task.published) :
            LET published == task.published[i] IN
            /\ ScanAllProcessed(task)
            /\ ScannedFilesIndexed(task)
            /\ published.diagnostics = FileDiagnosticsResult(published.path)
            /\ \A d \in SeqRange(published.diagnostics) :
                  ~ScannedSomewhere(task, d.args[1][1], CounterpartOf(d.text))

(* app.ts, which calls f, was scanned before lib.rs, which defines f, and   *)
(* its diagnostics are published with no complaint about f                  *)
C37_Witness ==
    \E id \in TaskIds :
        LET task == tasks[id] IN
        /\ task.files[1].path = "app.ts"
        /\ \E f \in SeqRange(task.files[1].parsed.findings) : f.key = "f" /\ f.behavior = "Call"
        /\ \E f \in SeqRange(task.files[2].parsed.findings) : f.key = "f" /\ f.behavior = "Definition"
        /\ \E i \in 1..Len(task.published) :
              /\ task.published[i].path = "app.ts"
              /\ \A d \in SeqRange(task.published[i].diagnostics) : d.args[1][1] # "f"

(* the UTF-16 offset and the byte offset at which the char after the first  *)
(* k chars of line starts                                                   *)
Utf16Offset(line, k) ==
    LET RECURSIVE Sum(_)
        Sum(i) == IF i = 0 THEN 0 ELSE Sum(i - 1) + line[i].len_utf16
    IN  Sum(k)

ByteOffset(line, k) ==
    LET RECURSIVE Sum(_)
        Sum(i) == IF i = 0 THEN 0 ELSE Sum(i - 1) + line[i].len_utf8
    IN  Sum(k)

(* C38: lsp_character_to_byte_index(line, n) turns a UTF-16 offset into a   *)
(* byte offset: for an n on a character boundary it returns the byte index  *)
(* at which that character starts (the length of the line for its end), and *)
(* for every n, past the end or inside a surrogate pair included, a byte    *)
(* index that is at most the length of the line and on a character boundary *)
C38_Utf16OffsetToByteIndex ==
    last.op = "lsp_character_to_byte_index" =>
        /\ \A k \in 0..Len(last.line) :
              Utf16Offset(last.line, k) = last.character =>
                  last.output = ByteOffset(last.line, k)
        /\ last.output <= ByteOffset(last.line, Len(last.line))
        /\ \E k \in 0..Len(last.line) : last.output = ByteOffset(last.line, k)

(* a line of an ASCII char, a surrogate pair and an ASCII char, asked for   *)
(* the offset after the pair: byte 5                                        *)
C38_Witness ==
    /\ last.op = "lsp_character_to_byte_index"
    /\ last.line = <<Char(1, 1), Char(4, 2), Char(1, 1)>>
    /\ last.character = 3
    /\ last.output = 5

====
